---- MODULE Spec2Model ----
(***************************************************************************)
(* Model of the hybrid RAG core of polyagent (python-ai/app/rag):          *)
(*   - the reranking stack of rerankers.py and HybridRAGEngine's           *)
(*     _rerank_results loop                       (specification SpecRerank)*)
(*   - HybridRAGEngine.retrieve of core.py        (specification Spec)     *)
(*   - GraphRetriever / KnowledgeGraph of graph_retriever.py and the graph *)
(*     entry points of advanced_rag.py            (specification SpecGraph)*)
(*                                                                         *)
(* Scores are Python floats in the source.  They are modelled in fixed     *)
(* point: the integer n stands for n / SCALE, products with a decimal      *)
(* weight are integer products followed by a floor division.               *)
(*                                                                         *)
(* RetrievalResult objects are shared by reference between the lists the   *)
(* source builds (list.copy() is shallow).  A list is therefore a sequence *)
(* of object identities and the objects' mutable fields live in a heap:    *)
(* a function from object identity to [chunk, score, rank].                *)
(***************************************************************************)
EXTENDS Integers, Sequences, FiniteSets, TLC

VARIABLES
    \* ---- reranking (rerankers.py, core.py _rerank_results)
    rr_pc,            \* position inside HybridRAGEngine._rerank_results / the reranker
    rr_kind,          \* class of the single registered reranker
    rr_entry,         \* [list, heap] as handed to the stage
    rr_list,          \* reranked_results: the list the loop currently holds
    rr_heap,          \* the RetrievalResult objects (shared, mutated in place)
    rr_raised,        \* TRUE once reranker.rerank raised (caught by the loop)
    semantic_scores,  \* locals of HybridReranker.rerank, kept across its awaits
    semantic_results,
    multifactor_scores,
    multifactor_results,
    diversity_scores,
    diversity_results,
    sem_backend,      \* which model SemanticReranker._load_model managed to load
    ce_raw,           \* what the external scorer answers for a chunk's content
    fail_call,        \* which call of the external scorer raises (0: none)
    max_same_source,  \* DiversityReranker.max_same_source
    \* ---- HybridRAGEngine.retrieve (core.py)
    query,            \* the RAGQuery
    selected_mode,    \* retrieve's local: what _select_retrieval_mode returned
    retrievers,       \* names registered with register_retriever
    phase,            \* position inside HybridRAGEngine.retrieve
    active_retrievers,\* _parallel_retrieve local: names dispatched, in order
    task,             \* state of each dispatched retriever coroutine
    task_result,      \* what each finished coroutine returned
    retrieval_results,\* _parallel_retrieve's dict
    fused_results,    \* what _fuse_results returned
    response,         \* the RAGResponse, or how retrieve ended
    \* ---- GraphRetriever / KnowledgeGraph (graph_retriever.py, advanced_rag.py)
    graph_built,      \* GraphRetriever.graph_built
    entities,         \* KnowledgeGraph.entities, in dict order
    pc,               \* per caller: position in retrieve / add_documents
    kind,             \* per caller: "query" (retrieve) or "add" (add_documents)
    b_chunks,         \* per caller: the chunks its build_from_chunks was given
    b_idx,            \* per caller: next chunk of its build_from_chunks
    b_saw_built,      \* per caller: graph_built when its construction started
    overlapped,       \* TRUE once two constructions have run at the same time
    \* ---- HybridRetriever.search (hybrid_retriever.py)
    hs_pc,            \* "idle", "start" (before the fusion), "done"
    fusion_method,    \* the fusion_method argument of search
    hs_top_k,         \* the top_k argument of search
    semantic_hits,    \* what vector_store.similarity_search returned: (chunk, score)
    bm25_hits,        \* what bm25_retriever.search returned: (chunk, score)
    hs_out,           \* the list search returned
    hs_error,         \* the exception search ended with, or "none"
    \* ---- BM25Retriever (hybrid_retriever.py)
    bm25,             \* the index: documents, doc_freqs, idf_cache, doc_lens, avgdl
    bm_query,         \* the query of the last search, as words
    bm_out,           \* what the last search returned: (document position, score)
    \* ---- KnowledgeGraph.get_related_entities (graph_retriever.py)
    relations,        \* KnowledgeGraph.relations, in the order add_relation was called
    entity_id,        \* the entity_id argument
    max_depth,        \* the max_depth argument
    gr_pc,            \* "idle", "start", "loop" (inside `while queue`), "done"
    queue,            \* the local queue: (entity id, depth, path)
    visited,          \* the local visited set
    related,          \* the local list that is returned
    \* ---- AdvancedRAGSystem.clear_data (advanced_rag.py)
    discarded,        \* callers whose build_from_chunks was started on a
                      \* KnowledgeGraph object that clear_data has replaced since
    \* ---- AdvancedRAGSystem configuration (advanced_rag.py)
    rag_system,       \* initialized, enable_advanced_reranking, rerankers
    rag_engine,       \* the HybridRAGEngine of the system, once it exists:
                      \* rerankers, retrieval_weights["vector"], query_length_threshold
    rerankers_made,   \* HybridReranker objects constructed so far
    rerank_calls,     \* reranker.rerank calls made for the last search
    \* ---- GraphRetriever.retrieve, one caller (graph_retriever.py)
    g_query,          \* the query of the last call: what NER finds, its words
    g_pool,           \* chunk_pool of the last call
    g_top_k,          \* query.top_k of the last call
    g_results         \* the list returned, as (chunk, score) records

rr_vars == <<rr_pc, rr_kind, rr_entry, rr_list, rr_heap, rr_raised,
             semantic_scores, semantic_results, multifactor_scores,
             multifactor_results, diversity_scores, diversity_results,
             sem_backend, ce_raw, fail_call, max_same_source>>

eng_vars == <<query, selected_mode, retrievers, phase, active_retrievers, task, task_result,
              retrieval_results, fused_results, response>>

kg_vars == <<graph_built, entities, pc, kind, b_chunks, b_idx, b_saw_built, overlapped>>

hs_vars == <<hs_pc, fusion_method, hs_top_k, semantic_hits, bm25_hits, hs_out, hs_error>>

bm_vars == <<bm25, bm_query, bm_out>>

gr_vars == <<relations, entity_id, max_depth, gr_pc, queue, visited, related>>

cfg_vars == <<rag_system, rag_engine, rerankers_made, rerank_calls>>

qr_vars == <<g_query, g_pool, g_top_k, g_results>>

ext_vars == <<bm_vars, gr_vars, discarded, cfg_vars, qr_vars, qr_vars>>

vars == <<rr_vars, eng_vars, kg_vars, hs_vars, ext_vars>>

not_rr_vars == <<eng_vars, kg_vars, hs_vars, ext_vars>>

-----------------------------------------------------------------------------
(* Bounds of the model *)

MaxChunk == 4          \* chunk ids are 1..MaxChunk
MaxInput == 3          \* longest list handed to a reranker
MaxSameSourceBound == 2 \* max_same_source ranges over 1..MaxSameSourceBound

SCALE == 10 * 100      \* fixed point: SCALE stands for 1.0

Chunks == 1..MaxChunk

-----------------------------------------------------------------------------
(* The chunk pool: DocumentChunk fields the rerankers read.  Chunks 1, 2, 3 *)
(* come from one source document, chunk 4 from another; chunks 1 and 2 have *)
(* the same words; the even chunks are of lower quality and older.          *)

source_doc_id(c) == IF c % 4 = 0 THEN "docB" ELSE "docA"

chunk_type(c) == IF c % 2 = 0 THEN "table" ELSE "paragraph"

content(c) ==
    IF c % 4 \in {1, 2} THEN <<"graph", "retrieval">>
    ELSE IF c % 4 = 3 THEN <<"vector", "search", "index">>
    ELSE <<"graph", "index">>

quality_score(c) == IF c % 2 = 0 THEN SCALE \div 2 ELSE SCALE

\* exp(-0.1 * age_days) of rerankers.py:349, tabulated for the pool's ages
recency_of(c) == IF c % 2 = 1 THEN SCALE ELSE (9 * SCALE) \div 10

query_words == {"graph", "search"}

-----------------------------------------------------------------------------
(* Sequence helpers *)

Range(s) == {s[i] : i \in DOMAIN s}

RECURSIVE SeqMin(_)
SeqMin(s) ==
    IF Len(s) = 1 THEN s[1]
    ELSE LET m == SeqMin(Tail(s)) IN IF s[1] < m THEN s[1] ELSE m

RECURSIVE SeqMax(_)
SeqMax(s) ==
    IF Len(s) = 1 THEN s[1]
    ELSE LET m == SeqMax(Tail(s)) IN IF s[1] > m THEN s[1] ELSE m

RemoveAt(s, i) == SubSeq(s, 1, i - 1) \o SubSeq(s, i + 1, Len(s))

\* the slice s[:n]
Prefix(s, n) == SubSeq(s, 1, IF Len(s) < n THEN Len(s) ELSE n)

IdentityList(n) == [i \in 1..n |-> i]

ScoresOf(lst, heap) == [i \in 1..Len(lst) |-> heap[lst[i]].score]

\* list.sort(key=lambda x: x.score, reverse=True): stable, descending
RECURSIVE InsertDesc(_, _, _)
InsertDesc(sorted, x, heap) ==
    IF sorted = <<>> THEN <<x>>
    ELSE IF heap[Head(sorted)].score >= heap[x].score
         THEN <<Head(sorted)>> \o InsertDesc(Tail(sorted), x, heap)
         ELSE <<x>> \o sorted

RECURSIVE SortByScoreDesc(_, _)
SortByScoreDesc(lst, heap) ==
    IF lst = <<>> THEN <<>>
    ELSE InsertDesc(SortByScoreDesc(SubSeq(lst, 1, Len(lst) - 1), heap),
                    lst[Len(lst)], heap)

\* what a rerank call leaves behind: the list it returns, the objects as it
\* left them, and whether it raised instead of returning
Ret(lst, heap) == [list |-> lst, heap |-> heap, raised |-> FALSE]
Raise(lst, heap) == [list |-> lst, heap |-> heap, raised |-> TRUE]

-----------------------------------------------------------------------------
(* SemanticReranker *)

raw_scores(lst, heap) == [i \in 1..Len(lst) |-> ce_raw[heap[lst[i]].chunk]]

\* _rerank_with_cross_encoder: predict, then min-max normalisation only when
\* max_score > min_score
rerank_with_cross_encoder(lst, heap) ==
    LET scores == raw_scores(lst, heap)
        min_score == SeqMin(scores)
        max_score == SeqMax(scores)
    IN  IF max_score > min_score
        THEN [i \in 1..Len(lst) |->
                ((scores[i] - min_score) * SCALE) \div (max_score - min_score)]
        ELSE scores

\* _rerank_with_similarity: the cosine similarities, as they come
rerank_with_similarity(lst, heap) == raw_scores(lst, heap)

\* result.score = 0.3 * original_score + 0.7 * semantic_score, result by result
RECURSIVE semantic_update(_, _, _, _)
semantic_update(lst, scores, heap, i) ==
    IF i > Len(lst) THEN heap
    ELSE semantic_update(lst, scores,
            IF i <= Len(scores)
            THEN [heap EXCEPT ![lst[i]].score = (3 * @ + 7 * scores[i]) \div 10]
            ELSE heap,
            i + 1)

\* SemanticReranker.rerank; `call` numbers this use of the external scorer
SemanticReranker_rerank(lst, heap, call) ==
    IF lst = <<>> THEN Ret(lst, heap)
    ELSE IF sem_backend = "none" THEN Ret(lst, heap)
    ELSE IF fail_call = call THEN Raise(lst, heap)
    ELSE LET scores == IF sem_backend = "cross_encoder"
                       THEN rerank_with_cross_encoder(lst, heap)
                       ELSE rerank_with_similarity(lst, heap)
             h2 == semantic_update(lst, scores, heap, 1)
         IN  Ret(SortByScoreDesc(lst, h2), h2)

-----------------------------------------------------------------------------
(* MultiFactorReranker *)

\* _normalize_scores (rerankers.py): 0.5 everywhere when all scores are equal
mf_normalize_scores(scores) ==
    IF scores = <<>> THEN scores
    ELSE LET min_score == SeqMin(scores)
             max_score == SeqMax(scores)
         IN  IF max_score <= min_score
             THEN [i \in 1..Len(scores) |-> SCALE \div 2]
             ELSE [i \in 1..Len(scores) |->
                     ((scores[i] - min_score) * SCALE) \div (max_score - min_score)]

\* str.count of one word in the content
word_count(c, w) == Cardinality({k \in 1..Len(content(c)) : content(c)[k] = w})

RECURSIVE SetSum(_, _, _)
SetSum(S, c, acc) ==
    IF S = {} THEN acc
    ELSE LET w == CHOOSE w \in S : TRUE
         IN  SetSum(S \ {w}, c, acc + word_count(c, w))

\* _calculate_lexical_scores: 0.6 * jaccard + 0.4 * tf
lexical_score(c) ==
    LET content_words == Range(content(c))
        intersection == Cardinality(query_words \cap content_words)
        union == Cardinality(query_words \cup content_words)
        jaccard_score == IF union > 0 THEN (intersection * SCALE) \div union ELSE 0
        n == IF Len(content(c)) > 1 THEN Len(content(c)) ELSE 1
        tf_score == (SetSum(query_words, c, 0) * SCALE) \div n
    IN  (6 * jaccard_score + 4 * tf_score) \div 10

calculate_lexical_scores(lst, heap) ==
    [i \in 1..Len(lst) |-> lexical_score(heap[lst[i]].chunk)]

calculate_recency_scores(lst, heap) ==
    [i \in 1..Len(lst) |-> recency_of(heap[lst[i]].chunk)]

\* _calculate_diversity_scores: 1.0, times 0.7 for a source seen earlier in
\* the list, times 0.8 for a chunk type seen earlier in the list
calculate_diversity_scores(lst, heap) ==
    [i \in 1..Len(lst) |->
        LET c == heap[lst[i]].chunk
            seen_source == \E j \in 1..(i - 1) :
                source_doc_id(heap[lst[j]].chunk) = source_doc_id(c)
            seen_type == \E j \in 1..(i - 1) :
                chunk_type(heap[lst[j]].chunk) = chunk_type(c)
            d1 == IF seen_source THEN (SCALE * 7) \div 10 ELSE SCALE
        IN  IF seen_type THEN (d1 * 8) \div 10 ELSE d1]

\* _calculate_position_scores: 1 / (1 + i), i the 0-based position
calculate_position_scores(n) == [i \in 1..n |-> SCALE \div i]

\* _extract_features: the six normalised feature vectors, or the failure of
\* the inner SemanticReranker; `heap` is as the inner reranker left it
extract_features(lst, heap, call) ==
    LET sem == SemanticReranker_rerank(lst, heap, call)   \* on results.copy()
        sem_scores == ScoresOf(sem.list, sem.heap)
    IN  [raised |-> sem.raised,
         heap |-> sem.heap,
         semantic |-> mf_normalize_scores(sem_scores),
         lexical |-> mf_normalize_scores(calculate_lexical_scores(lst, heap)),
         quality |-> mf_normalize_scores(
                        [i \in 1..Len(lst) |-> quality_score(heap[lst[i]].chunk)]),
         recency |-> mf_normalize_scores(calculate_recency_scores(lst, heap)),
         diversity |-> mf_normalize_scores(calculate_diversity_scores(lst, heap)),
         position |-> mf_normalize_scores(calculate_position_scores(Len(lst)))]

\* weights of MultiFactorReranker.__init__, in hundredths
mf_combined_score(f, i) ==
    (40 * f.semantic[i] + 20 * f.lexical[i] + 15 * f.quality[i]
     + 10 * f.recency[i] + 10 * f.diversity[i] + 5 * f.position[i]) \div 100

\* result.score = 0.3 * result.score + 0.7 * combined_score, result by result
RECURSIVE multifactor_update(_, _, _, _)
multifactor_update(lst, f, heap, i) ==
    IF i > Len(lst) THEN heap
    ELSE multifactor_update(lst, f,
            [heap EXCEPT ![lst[i]].score = (3 * @ + 7 * mf_combined_score(f, i)) \div 10],
            i + 1)

MultiFactorReranker_rerank(lst, heap, call) ==
    IF lst = <<>> THEN Ret(lst, heap)
    ELSE LET f == extract_features(lst, heap, call)
         IN  IF f.raised THEN Raise(lst, f.heap)
             ELSE LET h2 == multifactor_update(lst, f, f.heap, 1)
                  IN  Ret(SortByScoreDesc(lst, h2), h2)

-----------------------------------------------------------------------------
(* DiversityReranker *)

\* _content_similarity: Jaccard similarity of the two word sets
content_similarity(c1, c2) ==
    LET words1 == Range(content(c1))
        words2 == Range(content(c2))
        union == Cardinality(words1 \cup words2)
    IN  IF union > 0 THEN (Cardinality(words1 \cap words2) * SCALE) \div union ELSE 0

\* source_counts.get(source_id, 0): how many selected results have the source
source_count(selected, heap, src) ==
    Cardinality({k \in 1..Len(selected) : source_doc_id(heap[selected[k]].chunk) = src})

\* _calculate_diversity_bonus, diversity_threshold = 0.8
calculate_diversity_bonus(cand, selected, heap, m) ==
    LET c == heap[cand].chunk
        cnt == source_count(selected, heap, source_doc_id(c))
        source_bonus == IF cnt = 0 THEN (2 * SCALE) \div 10
                        ELSE IF cnt >= m THEN 0 - (3 * SCALE) \div 10
                        ELSE 0
        sims == [k \in 1..Len(selected) |-> content_similarity(c, heap[selected[k]].chunk)]
        max_similarity == IF selected = <<>> THEN 0
                          ELSE IF SeqMax(sims) > 0 THEN SeqMax(sims) ELSE 0
        threshold == (8 * SCALE) \div 10
        sim_penalty == IF max_similarity > threshold
                       THEN (2 * (max_similarity - threshold)) \div 10 ELSE 0
        type_bonus == IF \E k \in 1..Len(selected) :
                            chunk_type(heap[selected[k]].chunk) = chunk_type(c)
                      THEN 0 ELSE SCALE \div 10
    IN  source_bonus - sim_penalty + type_bonus

\* the inner loop of DiversityReranker.rerank: index of the first candidate of
\* the highest combined score above best_score = -1, or 0 when there is none
best_index(remaining, selected, heap, m) ==
    LET combined == [i \in 1..Len(remaining) |->
                        heap[remaining[i]].score
                        + calculate_diversity_bonus(remaining[i], selected, heap, m)]
        cands == {i \in 1..Len(remaining) : combined[i] > 0 - SCALE}
    IN  IF cands = {} THEN 0
        ELSE CHOOSE i \in cands :
                \A j \in cands : combined[i] > combined[j]
                                 \/ (combined[i] = combined[j] /\ i <= j)

\* the greedy selection: one candidate per round of the outer loop
RECURSIVE diversity_select(_, _, _, _, _)
diversity_select(selected, remaining, heap, m, rounds) ==
    IF rounds = 0 \/ remaining = <<>> THEN selected
    ELSE LET b == best_index(remaining, selected, heap, m)
         IN  IF b = 0 THEN selected
             ELSE diversity_select(Append(selected, remaining[b]),
                                   RemoveAt(remaining, b), heap, m, rounds - 1)

RECURSIVE assign_ranks(_, _, _)
assign_ranks(lst, heap, i) ==
    IF i > Len(lst) THEN heap
    ELSE assign_ranks(lst, [heap EXCEPT ![lst[i]].rank = i], i + 1)

DiversityReranker_rerank(lst, heap, m) ==
    IF lst = <<>> THEN Ret(lst, heap)
    ELSE LET diversified == diversity_select(<<Head(lst)>>, Tail(lst), heap, m,
                                             Len(lst) - 1)
         IN  Ret(diversified, assign_ranks(diversified, heap, 1))

-----------------------------------------------------------------------------
(* HybridReranker.rerank, one action per await, run by the loop of            *)
(* HybridRAGEngine._rerank_results over its one registered reranker.  The     *)
(* loop catches what rerank raises and carries on with the list it holds.     *)

DefaultMaxSameSource == 3

NoScores == <<>>

hy_locals == <<semantic_scores, semantic_results, multifactor_scores,
               multifactor_results, diversity_scores, diversity_results>>

HybridLocalsInit ==
    /\ semantic_scores = NoScores
    /\ semantic_results = <<>>
    /\ multifactor_scores = NoScores
    /\ multifactor_results = <<>>
    /\ diversity_scores = NoScores
    /\ diversity_results = <<>>

rr_config == <<rr_kind, rr_entry, sem_backend, ce_raw, fail_call, max_same_source>>

\* except Exception: log, continue -- reranked_results keeps its value
RerankCaught(heap) ==
    /\ rr_raised' = TRUE
    /\ rr_heap' = heap
    /\ rr_list' = rr_list
    /\ rr_pc' = "done"

\* reranked_results = await reranker.rerank(query, reranked_results)
RerankReturned(r) ==
    /\ rr_raised' = rr_raised
    /\ rr_heap' = r.heap
    /\ rr_list' = r.list
    /\ rr_pc' = "done"

RerankSemantic ==
    /\ rr_pc = "start" /\ rr_kind = "semantic"
    /\ LET r == SemanticReranker_rerank(rr_list, rr_heap, 1)
       IN  IF r.raised THEN RerankCaught(r.heap) ELSE RerankReturned(r)
    /\ UNCHANGED <<hy_locals, rr_config, not_rr_vars>>

RerankMultiFactor ==
    /\ rr_pc = "start" /\ rr_kind = "multifactor"
    /\ LET r == MultiFactorReranker_rerank(rr_list, rr_heap, 1)
       IN  IF r.raised THEN RerankCaught(r.heap) ELSE RerankReturned(r)
    /\ UNCHANGED <<hy_locals, rr_config, not_rr_vars>>

RerankDiversity ==
    /\ rr_pc = "start" /\ rr_kind = "diversity"
    /\ RerankReturned(DiversityReranker_rerank(rr_list, rr_heap, max_same_source))
    /\ UNCHANGED <<hy_locals, rr_config, not_rr_vars>>

\* if not results: return results
HybridEmpty ==
    /\ rr_pc = "start" /\ rr_kind = "hybrid" /\ rr_list = <<>>
    /\ RerankReturned(Ret(rr_list, rr_heap))
    /\ UNCHANGED <<hy_locals, rr_config, not_rr_vars>>

\* semantic_results = await self.semantic_reranker.rerank(query, results.copy())
HybridSemantic ==
    /\ rr_pc = "start" /\ rr_kind = "hybrid" /\ rr_list # <<>>
    /\ LET r == SemanticReranker_rerank(rr_list, rr_heap, 1)
       IN  IF r.raised
           THEN RerankCaught(r.heap) /\ UNCHANGED hy_locals
           ELSE /\ semantic_results' = r.list
                /\ semantic_scores' = ScoresOf(r.list, r.heap)
                /\ rr_heap' = r.heap
                /\ rr_pc' = "hy_multifactor"
                /\ UNCHANGED <<rr_list, rr_raised, multifactor_scores,
                               multifactor_results, diversity_scores, diversity_results>>
    /\ UNCHANGED <<rr_config, not_rr_vars>>

\* multifactor_results = await self.multifactor_reranker.rerank(query, results.copy())
HybridMultiFactor ==
    /\ rr_pc = "hy_multifactor"
    /\ LET r == MultiFactorReranker_rerank(rr_list, rr_heap, 2)
       IN  IF r.raised
           THEN RerankCaught(r.heap) /\ UNCHANGED hy_locals
           ELSE /\ multifactor_results' = r.list
                /\ multifactor_scores' = ScoresOf(r.list, r.heap)
                /\ rr_heap' = r.heap
                /\ rr_pc' = "hy_diversity"
                /\ UNCHANGED <<rr_list, rr_raised, semantic_scores,
                               semantic_results, diversity_scores, diversity_results>>
    /\ UNCHANGED <<rr_config, not_rr_vars>>

\* diversity_results = await self.diversity_reranker.rerank(query, results.copy())
HybridDiversity ==
    /\ rr_pc = "hy_diversity"
    /\ LET r == DiversityReranker_rerank(rr_list, rr_heap, DefaultMaxSameSource)
       IN  /\ diversity_results' = r.list
           /\ diversity_scores' = ScoresOf(r.list, r.heap)
           /\ rr_heap' = r.heap
           /\ rr_pc' = "hy_blend"
    /\ UNCHANGED <<rr_list, rr_raised, semantic_scores, semantic_results,
                   multifactor_scores, multifactor_results, rr_config, not_rr_vars>>

\* reranker_weights, in tenths: the three score lists are blended index by index
hybrid_final_score(i) ==
    (4 * semantic_scores[i] + 4 * multifactor_scores[i] + 2 * diversity_scores[i]) \div 10

RECURSIVE hybrid_update(_, _, _)
hybrid_update(lst, heap, i) ==
    IF i > Len(lst) THEN heap
    ELSE hybrid_update(lst, [heap EXCEPT ![lst[i]].score = hybrid_final_score(i)], i + 1)

\* the blend, the final sort and the ranks; an index past the end of a score
\* list is an IndexError, raised before any score is written
HybridBlend ==
    /\ rr_pc = "hy_blend"
    /\ IF \/ Len(semantic_scores) < Len(rr_list)
          \/ Len(multifactor_scores) < Len(rr_list)
          \/ Len(diversity_scores) < Len(rr_list)
       THEN RerankCaught(rr_heap)
       ELSE LET h2 == hybrid_update(rr_list, rr_heap, 1)
                sorted == SortByScoreDesc(rr_list, h2)
            IN  RerankReturned(Ret(sorted, assign_ranks(sorted, h2, 1)))
    /\ UNCHANGED <<hy_locals, rr_config, not_rr_vars>>

RerankNext ==
    \/ RerankSemantic
    \/ RerankMultiFactor
    \/ RerankDiversity
    \/ HybridEmpty
    \/ HybridSemantic
    \/ HybridMultiFactor
    \/ HybridDiversity
    \/ HybridBlend

-----------------------------------------------------------------------------
(* KnowledgeGraph: entity extraction and merge (graph_retriever.py)          *)
(* A name is a sequence of characters.                                       *)

MaxProcs == 2          \* concurrent callers of one GraphRetriever
MaxBuildChunks == 2    \* chunks handed to one build_from_chunks

Procs == 1..MaxProcs

N_openai == <<"o", "p", "e", "n", "a", "i">>
N_openais == <<"o", "p", "e", "n", "a", "i", "s">>
N_OpenAI == <<"O", "p", "e", "n", "A", "I">>
N_python == <<"p", "y", "t", "h", "o", "n">>

\* str.lower, on the characters the names use
lower_char(ch) ==
    IF ch = "O" THEN "o" ELSE IF ch = "A" THEN "a" ELSE IF ch = "I" THEN "i"
    ELSE IF ch = "P" THEN "p" ELSE IF ch = "C" THEN "c" ELSE ch

lower(name) == [i \in 1..Len(name) |-> lower_char(name[i])]

\* what the NLP pipeline finds in a chunk's content: (text, label) per entity
ner_of(c) ==
    IF c % 4 = 1 THEN <<[name |-> N_openai, entity_type |-> "ORG"]>>
    ELSE IF c % 4 = 2 THEN <<[name |-> N_openais, entity_type |-> "ORG"],
                            [name |-> N_python, entity_type |-> "TECH_ENTITY"]>>
    ELSE IF c % 4 = 3 THEN <<[name |-> N_OpenAI, entity_type |-> "PRODUCT"]>>
    ELSE <<[name |-> N_openais, entity_type |-> "TECH_ENTITY"]>>

\* extract_entities_from_text: the id is built from len(self.entities) at the
\* time of the call and the hash of the text (taken to be collision free)
extract_entities_from_text(c, ents) ==
    [k \in 1..Len(ner_of(c)) |->
        [id |-> <<Len(ents), ner_of(c)[k].name>>,
         name |-> ner_of(c)[k].name,
         entity_type |-> ner_of(c)[k].entity_type,
         mentions |-> <<ner_of(c)[k].name>>,
         frequency |-> 0]]

Min3(a, b, c) == IF a <= b /\ a <= c THEN a ELSE IF b <= c THEN b ELSE c

\* one row of the dynamic program of _levenshtein_distance
RECURSIVE levenshtein_row(_, _, _, _)
levenshtein_row(previous_row, current_row, c1, s2) ==
    LET j == Len(current_row)
    IN  IF j > Len(s2) THEN current_row
        ELSE levenshtein_row(previous_row,
                Append(current_row,
                       Min3(previous_row[j + 1] + 1,
                            current_row[j] + 1,
                            previous_row[j] + (IF c1 # s2[j] THEN 1 ELSE 0))),
                c1, s2)

RECURSIVE levenshtein_rows(_, _, _, _)
levenshtein_rows(previous_row, s1, s2, i) ==
    IF i > Len(s1) THEN previous_row
    ELSE levenshtein_rows(levenshtein_row(previous_row, <<i>>, s1[i], s2), s1, s2, i + 1)

levenshtein_distance(s1, s2) ==
    LET a == IF Len(s1) < Len(s2) THEN s2 ELSE s1
        b == IF Len(s1) < Len(s2) THEN s1 ELSE s2
    IN  IF Len(b) = 0 THEN Len(a)
        ELSE levenshtein_rows([j \in 1..(Len(b) + 1) |-> j - 1], a, b, 1)[Len(b) + 1]

\* _similarity_score(text1, text2) > 0.8, without the division
similarity_above_threshold(text1, text2) ==
    IF text1 = text2 THEN TRUE
    ELSE LET longer == IF Len(text1) > Len(text2) THEN text1 ELSE text2
             shorter == IF Len(text1) > Len(text2) THEN text2 ELSE text1
         IN  IF Len(longer) = 0 THEN FALSE
             ELSE 10 * (Len(longer) - levenshtein_distance(longer, shorter))
                    > 8 * Len(longer)

is_similar(existing, entity) ==
    \/ lower(existing.name) = lower(entity.name)
    \/ /\ existing.entity_type = entity.entity_type
       /\ similarity_above_threshold(existing.name, entity.name)

\* _find_similar_entity: index of the first similar entity in dict order, or 0
find_similar_entity(ents, entity) ==
    IF \E i \in 1..Len(ents) : is_similar(ents[i], entity)
    THEN CHOOSE i \in 1..Len(ents) :
            /\ is_similar(ents[i], entity)
            /\ \A j \in 1..(i - 1) : ~is_similar(ents[j], entity)
    ELSE 0

\* the body of the first loop of build_from_chunks for one extracted entity:
\* merge into the existing entity (mentions extended, frequency incremented)
\* or add it with frequency 1
merge_entity(ents, entity) ==
    LET existing == find_similar_entity(ents, entity)
    IN  IF existing # 0
        THEN [ents EXCEPT ![existing].mentions = @ \o entity.mentions,
                          ![existing].frequency = @ + 1]
        ELSE Append(ents, [entity EXCEPT !.frequency = 1])

RECURSIVE merge_entities(_, _)
merge_entities(ents, extracted) ==
    IF extracted = <<>> THEN ents
    ELSE merge_entities(merge_entity(ents, Head(extracted)), Tail(extracted))

\* the first loop of build_from_chunks for one chunk
build_chunk(ents, c) == merge_entities(ents, extract_entities_from_text(c, ents))

\* build_from_chunks, as far as the entities go
RECURSIVE build_from_chunks(_, _)
build_from_chunks(ents, chunks) ==
    IF chunks = <<>> THEN ents
    ELSE build_from_chunks(build_chunk(ents, Head(chunks)), Tail(chunks))

\* the entity set compared by id, name and frequency
EntitySet(ents) ==
    { [id |-> ents[i].id, name |-> ents[i].name, frequency |-> ents[i].frequency]
      : i \in 1..Len(ents) }

-----------------------------------------------------------------------------
(* GraphRetriever.retrieve and AdvancedRAGSystem.add_documents on one        *)
(* GraphRetriever.  build_from_chunks runs in the default executor, one      *)
(* thread per call, while the event loop serves the other callers.           *)

BuildChunkLists ==
    UNION { { l \in [1..n -> Chunks] : \A i, j \in 1..n : i # j => l[i] # l[j] }
            : n \in 1..MaxBuildChunks }

Building == {p \in Procs : pc[p] = "building"}

\* run_in_executor(None, self.knowledge_graph.build_from_chunks, chunks)
start_build(p, chunks) ==
    /\ pc' = [pc EXCEPT ![p] = "building"]
    /\ b_chunks' = [b_chunks EXCEPT ![p] = chunks]
    /\ b_idx' = [b_idx EXCEPT ![p] = 1]
    /\ b_saw_built' = [b_saw_built EXCEPT ![p] = graph_built]
    /\ overlapped' = (overlapped \/ Building # {})

\* retrieve: `if not self.graph_built` and then, inside _build_graph_if_needed,
\* `if self.graph_built: return`; no await lies between the two tests
QueryArrives(p) ==
    /\ pc[p] = "idle"
    /\ kind' = [kind EXCEPT ![p] = "query"]
    /\ IF graph_built
       THEN /\ pc' = [pc EXCEPT ![p] = "search"]
            /\ UNCHANGED <<b_chunks, b_idx, b_saw_built, overlapped>>
       ELSE \E chunks \in BuildChunkLists : start_build(p, chunks)
    /\ UNCHANGED <<graph_built, entities, rr_vars, eng_vars, hs_vars, ext_vars>>

\* add_documents -> _build_knowledge_graph: no test of graph_built
AddDocumentsArrives(p) ==
    /\ pc[p] = "idle"
    /\ kind' = [kind EXCEPT ![p] = "add"]
    /\ \E chunks \in BuildChunkLists : start_build(p, chunks)
    /\ UNCHANGED <<graph_built, entities, rr_vars, eng_vars, hs_vars, ext_vars>>

\* the executor thread of caller p handles its next chunk
BuildStep(p) ==
    /\ pc[p] = "building"
    /\ b_idx[p] <= Len(b_chunks[p])
    /\ entities' = build_chunk(entities, b_chunks[p][b_idx[p]])
    /\ b_idx' = [b_idx EXCEPT ![p] = @ + 1]
    /\ UNCHANGED <<graph_built, pc, kind, b_chunks, b_saw_built, overlapped,
                   rr_vars, eng_vars, hs_vars, ext_vars>>

\* build_from_chunks has returned: the awaiting coroutine resumes and sets
\* self.graph_built = True
BuildCompleted(p) ==
    /\ pc[p] = "building"
    /\ b_idx[p] > Len(b_chunks[p])
    /\ graph_built' = TRUE
    /\ pc' = [pc EXCEPT ![p] = IF kind[p] = "query" THEN "search" ELSE "done"]
    /\ UNCHANGED <<entities, kind, b_chunks, b_idx, b_saw_built, overlapped,
                   rr_vars, eng_vars, hs_vars, ext_vars>>

\* the rest of retrieve: entities of the query, related entities, scoring
QuerySearches(p) ==
    /\ pc[p] = "search"
    /\ pc' = [pc EXCEPT ![p] = "done"]
    /\ UNCHANGED <<graph_built, entities, kind, b_chunks, b_idx, b_saw_built,
                   overlapped, rr_vars, eng_vars, hs_vars, ext_vars>>

GraphIdle ==
    /\ graph_built = FALSE
    /\ entities = <<>>
    /\ pc = [p \in Procs |-> "off"]
    /\ kind = [p \in Procs |-> "none"]
    /\ b_chunks = [p \in Procs |-> <<>>]
    /\ b_idx = [p \in Procs |-> 0]
    /\ b_saw_built = [p \in Procs |-> FALSE]
    /\ overlapped = FALSE

\* clear_data("all" or "graph"): a new, empty KnowledgeGraph object replaces
\* the current one and graph_built is reset; the constructions in progress
\* keep the object they were started on
ClearData ==
    /\ graph_built' = FALSE
    /\ entities' = <<>>
    /\ discarded' = discarded \cup {p \in Procs : b_chunks[p] # <<>>}
    /\ UNCHANGED <<pc, kind, b_chunks, b_idx, b_saw_built, overlapped,
                   bm_vars, gr_vars, cfg_vars, qr_vars, rr_vars, eng_vars, hs_vars>>

\* the executor thread of caller p handles its next chunk, on an object that
\* is the retriever's knowledge_graph no longer
DiscardedBuildStep(p) ==
    /\ p \in discarded
    /\ pc[p] = "building"
    /\ b_idx[p] <= Len(b_chunks[p])
    /\ b_idx' = [b_idx EXCEPT ![p] = @ + 1]
    /\ UNCHANGED <<graph_built, entities, pc, kind, b_chunks, b_saw_built, overlapped,
                   rr_vars, eng_vars, hs_vars, ext_vars>>

-----------------------------------------------------------------------------
(* GraphRetriever.retrieve for one caller: the graph is built from the first *)
(* chunk_pool, then the entities of the query select the chunks returned.    *)
(* The chunks' sentences yield no relation, so that get_related_entities     *)
(* adds nothing to the entities of the query.  A text is the sequence of     *)
(* its words; a chunk's content is the words its NER names.                  *)

\* `sub in text` on strings
contains(text, sub) ==
    \E i \in 0..(Len(text) - Len(sub)) : SubSeq(text, i + 1, i + Len(sub)) = sub

\* mention.lower() in chunk.content.lower()
mentioned_in(c, mention) ==
    \E k \in 1..Len(ner_of(c)) : contains(lower(ner_of(c)[k].name), lower(mention))

\* the queries tried: what the NLP pipeline finds in the text, and its words
GraphQueries ==
    {[ner |-> <<[name |-> N_OpenAI, entity_type |-> "ORG"]>>, words |-> <<N_OpenAI>>],
     [ner |-> <<[name |-> N_python, entity_type |-> "TECH_ENTITY"]>>,
      words |-> <<N_python>>],
     [ner |-> <<>>, words |-> <<N_openai>>],
     [ner |-> <<>>, words |-> <<N_python, N_openais>>],
     [ner |-> <<>>, words |-> <<>>]}

\* extract_entities_from_text(query.query): the ids of the entities made
extracted_ids(q, ents) ==
    { <<Len(ents), q.ner[k].name>> : k \in 1..Len(q.ner) }

\* find_entities_by_mention: entity_index holds the lowered name each entity
\* was added with
find_entities_by_mention(ents, text) ==
    { ents[i].id : i \in { j \in 1..Len(ents) :
                             \/ contains(lower(ents[j].name), lower(text))
                             \/ contains(lower(text), lower(ents[j].name)) } }

\* _find_query_entities_by_keywords; the graphs built have fewer than the
\* five entities it keeps
find_query_entities_by_keywords(ents, q) ==
    UNION { find_entities_by_mention(ents, q.words[w]) : w \in 1..Len(q.words) }

\* retrieve: the entities of the query, by NER or else by keywords
query_entity_ids(q, ents) ==
    IF q.ner # <<>> THEN extracted_ids(q, ents)
    ELSE find_query_entities_by_keywords(ents, q)

graph_ids(ents) == { ents[i].id : i \in 1..Len(ents) }

entity_of(ents, id) == ents[CHOOSE i \in 1..Len(ents) : ents[i].id = id]

\* _get_chunk_entity_ids
get_chunk_entity_ids(ents, c, candidate_entity_ids) ==
    { id \in candidate_entity_ids \cap graph_ids(ents) :
        \E m \in 1..Len(entity_of(ents, id).mentions) :
            mentioned_in(c, entity_of(ents, id).mentions[m]) }

\* _calculate_entity_importance in 1/SCALE on a graph without relations:
\* degree centrality is 1 on a single node and 0 otherwise, betweenness is 0
importance_score(ents, id) ==
    LET max_freq == SeqMax([i \in 1..Len(ents) |-> ents[i].frequency])
    IN  (IF Len(ents) = 1 THEN (4 * SCALE) \div 10 ELSE 0)
        + (3 * SCALE * entity_of(ents, id).frequency) \div (10 * max_freq)

\* _calculate_graph_relevance_score, in 1/SCALE
calculate_graph_relevance_score(ents, c, related_entity_ids, query_ids) ==
    LET chunk_entities == get_chunk_entity_ids(ents, c, related_entity_ids)
        in_graph == query_ids \cap graph_ids(ents)
        base_score == (SCALE * Cardinality(chunk_entities))
                        \div (IF related_entity_ids = {} THEN 1
                              ELSE Cardinality(related_entity_ids))
        query_match_bonus == (SCALE * Cardinality(chunk_entities \cap in_graph))
                               \div (IF in_graph = {} THEN 1 ELSE Cardinality(in_graph))
        importance_sum[S \in SUBSET chunk_entities] ==
            IF S = {} THEN 0
            ELSE LET id == CHOOSE x \in S : TRUE
                 IN  importance_score(ents, id) + importance_sum[S \ {id}]
        importance_bonus == importance_sum[chunk_entities]
                              \div Cardinality(chunk_entities)
        score == (4 * base_score + 4 * query_match_bonus + 2 * importance_bonus) \div 10
    IN  IF chunk_entities = {} THEN 0
        ELSE IF score > SCALE THEN SCALE ELSE score

\* list.sort(key=score, reverse=True): stable
RECURSIVE sort_by_score(_)
sort_by_score(results) ==
    IF results = <<>> THEN <<>>
    ELSE LET rest == sort_by_score(Tail(results))
             ahead == { i \in 1..Len(rest) : rest[i].score > Head(results).score }
         IN  SubSeq(rest, 1, Cardinality(ahead)) \o <<Head(results)>>
             \o SubSeq(rest, Cardinality(ahead) + 1, Len(rest))

\* retrieve, after the graph is there
graph_retrieve(ents, q, chunk_pool, top_k) ==
    LET query_ids == query_entity_ids(q, ents)
        related_entity_ids == query_ids \cap graph_ids(ents)
        scored == [i \in 1..Len(chunk_pool) |->
                     [chunk |-> chunk_pool[i],
                      score |-> calculate_graph_relevance_score(
                                    ents, chunk_pool[i], related_entity_ids, query_ids)]]
        results == SelectSeq(scored, LAMBDA r : r.score > 0)
    IN  IF query_ids = {} THEN <<>>
        ELSE Prefix(sort_by_score(results), 2 * top_k)

\* one call of retrieve: _build_graph_if_needed(chunk_pool) when the graph is
\* not built, then the search
GraphRetrieve(q, chunk_pool, top_k) ==
    /\ LET ents == IF graph_built THEN entities ELSE build_from_chunks(entities, chunk_pool)
       IN  /\ entities' = ents
           /\ g_results' = graph_retrieve(ents, q, chunk_pool, top_k)
    /\ graph_built' = TRUE
    /\ g_query' = q
    /\ g_pool' = chunk_pool
    /\ g_top_k' = top_k
    /\ UNCHANGED <<pc, kind, b_chunks, b_idx, b_saw_built, overlapped,
                   bm_vars, gr_vars, discarded, cfg_vars, rr_vars, eng_vars, hs_vars>>

QueryIdle ==
    /\ g_query = [ner |-> <<>>, words |-> <<>>]
    /\ g_pool = <<>>
    /\ g_top_k = 0
    /\ g_results = <<>>

-----------------------------------------------------------------------------
(* HybridRetriever (hybrid_retriever.py): fusion of the vector store's and   *)
(* the BM25 retriever's hits.  A hit is a pair (chunk, score); a fused       *)
(* result is hybrid_retriever.RetrievalResult.                               *)

MaxFusionTopK == 2     \* top_k of HybridRetriever.search

rrf_k == 60

\* the fields of core.DocumentChunk, the class of every chunk the vector
\* stores and the BM25 index hand out
DocumentChunkFields ==
    {"id", "content", "chunk_type", "source_doc_id", "metadata", "embedding",
     "embedding_model", "start_char", "end_char", "page_number", "parent_chunk_id",
     "child_chunk_ids", "entities", "relations", "quality_score",
     "relevance_keywords", "created_at"}

\* `chunk.chunk_id` raises AttributeError unless the class has the attribute
has_attribute(name) == name \in DocumentChunkFields

FusionOk(results) == [error |-> "none", results |-> results]
FusionRaised(e) == [error |-> e, results |-> <<>>]

\* HybridRetriever._normalize_scores: min-max, 1.0 everywhere when all equal
hr_normalize_scores(scores) ==
    IF scores = <<>> THEN <<>>
    ELSE LET min_score == SeqMin(scores)
             max_score == SeqMax(scores)
         IN  IF max_score = min_score THEN [i \in 1..Len(scores) |-> SCALE]
             ELSE [i \in 1..Len(scores) |->
                     ((scores[i] - min_score) * SCALE) \div (max_score - min_score)]

HitScores(hits) == [i \in 1..Len(hits) |-> hits[i].score]

\* {chunk.chunk_id: value ...}.get(chunk_id, 0.0): a later entry of the same
\* chunk overwrites an earlier one
map_get(hits, values, c) ==
    IF \E i \in 1..Len(hits) : hits[i].chunk = c
    THEN LET i == CHOOSE i \in 1..Len(hits) :
                    /\ hits[i].chunk = c
                    /\ \A j \in (i + 1)..Len(hits) : hits[j].chunk # c
         IN  values[i]
    ELSE 0

\* all_chunks: the chunks of semantic_res + bm25_res, each once, in
\* the order of their first appearance
RECURSIVE all_chunks(_)
all_chunks(hits) ==
    IF hits = <<>> THEN <<>>
    ELSE LET before == all_chunks(SubSeq(hits, 1, Len(hits) - 1))
             c == hits[Len(hits)].chunk
         IN  IF \E i \in 1..Len(before) : before[i] = c THEN before
             ELSE Append(before, c)

\* list.sort(key=lambda x: x.combined_score, reverse=True): stable
RECURSIVE insert_by_combined(_, _)
insert_by_combined(sorted, x) ==
    IF sorted = <<>> THEN <<x>>
    ELSE IF x.combined_score > Head(sorted).combined_score THEN <<x>> \o sorted
    ELSE <<Head(sorted)>> \o insert_by_combined(Tail(sorted), x)

RECURSIVE sort_by_combined(_)
sort_by_combined(results) ==
    IF results = <<>> THEN <<>>
    ELSE insert_by_combined(sort_by_combined(SubSeq(results, 1, Len(results) - 1)),
                            results[Len(results)])

\* semantic_weight and bm25_weight after __init__ has divided them by their
\* sum, in tenths
semantic_weight == 6
bm25_weight == 4

\* _weighted_fusion
weighted_fusion(semantic_res, bm25_res, top_k) ==
    IF semantic_res \o bm25_res # <<>> /\ ~has_attribute("chunk_id")
    THEN FusionRaised("AttributeError")
    ELSE LET semantic_scores_n == hr_normalize_scores(HitScores(semantic_res))
             bm25_scores_n == hr_normalize_scores(HitScores(bm25_res))
             chunks == all_chunks(semantic_res \o bm25_res)
             combined_results ==
                [i \in 1..Len(chunks) |->
                    LET s == map_get(semantic_res, semantic_scores_n, chunks[i])
                        b == map_get(bm25_res, bm25_scores_n, chunks[i])
                    IN  [chunk |-> chunks[i], semantic_score |-> s, bm25_score |-> b,
                         combined_score |-> (semantic_weight * s + bm25_weight * b) \div 10,
                         rank_fusion_score |-> 0]]
         IN  FusionOk(Prefix(sort_by_combined(combined_results), top_k))

\* _max_fusion
max_fusion(semantic_res, bm25_res, top_k) ==
    IF semantic_res \o bm25_res # <<>> /\ ~has_attribute("chunk_id")
    THEN FusionRaised("AttributeError")
    ELSE LET semantic_scores_n == hr_normalize_scores(HitScores(semantic_res))
             bm25_scores_n == hr_normalize_scores(HitScores(bm25_res))
             chunks == all_chunks(semantic_res \o bm25_res)
             max_results ==
                [i \in 1..Len(chunks) |->
                    LET s == map_get(semantic_res, semantic_scores_n, chunks[i])
                        b == map_get(bm25_res, bm25_scores_n, chunks[i])
                    IN  [chunk |-> chunks[i], semantic_score |-> s, bm25_score |-> b,
                         combined_score |-> IF s > b THEN s ELSE b,
                         rank_fusion_score |-> 0]]
         IN  FusionOk(Prefix(sort_by_combined(max_results), top_k))

\* RRF scores are kept exact: the integer n stands for n / rrf_unit, where
\* rrf_unit is a common multiple of every rrf_k + rank + 1 that can occur
RECURSIVE rrf_unit_upto(_)
rrf_unit_upto(n) == IF n = 0 THEN 1 ELSE (rrf_k + n) * rrf_unit_upto(n - 1)

rrf_unit == rrf_unit_upto(2 * MaxFusionTopK)

\* semantic_ranks.get / `chunk_id in semantic_ranks`: the 0-based rank of the
\* chunk's last entry in the list, or -1 when the list does not hold it
rank_in(hits, c) == map_get(hits, [i \in 1..Len(hits) |-> i], c) - 1

\* 1.0 / (self.rrf_k + rank + 1)
rrf_term(rank) == IF rank < 0 THEN 0 ELSE rrf_unit \div (rrf_k + rank + 1)

\* _reciprocal_rank_fusion
reciprocal_rank_fusion(semantic_res, bm25_res, top_k) ==
    IF semantic_res \o bm25_res # <<>> /\ ~has_attribute("chunk_id")
    THEN FusionRaised("AttributeError")
    ELSE LET chunks == all_chunks(semantic_res \o bm25_res)
             rrf_results ==
                [i \in 1..Len(chunks) |->
                    LET rrf_score == rrf_term(rank_in(semantic_res, chunks[i]))
                                     + rrf_term(rank_in(bm25_res, chunks[i]))
                    IN  [chunk |-> chunks[i],
                         semantic_score |-> map_get(semantic_res,
                                                    HitScores(semantic_res), chunks[i]),
                         bm25_score |-> map_get(bm25_res,
                                                HitScores(bm25_res), chunks[i]),
                         combined_score |-> rrf_score,
                         rank_fusion_score |-> rrf_score]]
         IN  FusionOk(Prefix(sort_by_combined(rrf_results), top_k))

\* the `if fusion_method == ...` chain of HybridRetriever.search
fuse(method, semantic_res, bm25_res, top_k) ==
    IF method = "weighted" THEN weighted_fusion(semantic_res, bm25_res, top_k)
    ELSE IF method = "rrf" THEN reciprocal_rank_fusion(semantic_res, bm25_res, top_k)
    ELSE IF method = "max" THEN max_fusion(semantic_res, bm25_res, top_k)
    ELSE FusionRaised("ValueError")

\* search, from the two result lists to its return or its exception
SearchFuses(method) ==
    /\ hs_pc = "start"
    /\ fusion_method = method
    /\ LET r == fuse(method, semantic_hits, bm25_hits, hs_top_k)
       IN  /\ hs_out' = r.results
           /\ hs_error' = r.error
    /\ hs_pc' = "done"
    /\ UNCHANGED <<fusion_method, hs_top_k, semantic_hits, bm25_hits,
                   rr_vars, eng_vars, kg_vars, ext_vars>>

FusionIdle ==
    /\ hs_pc = "idle"
    /\ fusion_method = "weighted"
    /\ hs_top_k = 1
    /\ semantic_hits = <<>>
    /\ bm25_hits = <<>>
    /\ hs_out = <<>>
    /\ hs_error = "none"

-----------------------------------------------------------------------------
(* BM25Retriever (hybrid_retriever.py).  A chunk is its content, a sequence of
   words; scores and IDF values are in units of 1/SCALE.                     *)

MaxDocs == 6           \* documents in the index
MaxBatch == 2          \* chunks of one add_documents call

\* _tokenize: lower case, then the words of more than one character
tokenize(text) ==
    LET lowered == [k \in 1..Len(text) |->
                       IF text[k] = "ML" THEN "ml" ELSE IF text[k] = "A" THEN "a" ELSE text[k]]
    IN  SelectSeq(lowered, LAMBDA w : w # "a")

\* Counter(tokens)[token]
token_count(tokens, token) == Cardinality({k \in 1..Len(tokens) : tokens[k] = token})

\* math.log((total_docs - df + 0.5) / (df + 0.5)), tabulated and rounded
idf_of(total_docs, df) ==
    LET table == << <<-1099>>,
                    <<0, -1609>>,
                    <<511, -511, -1946>>,
                    <<847, 0, -847, -2197>>,
                    <<1099, 336, -336, -1099, -2398>>,
                    <<1299, 588, 0, -588, -1299, -2565>> >>
    IN  table[total_docs][df]

\* BM25Retriever.__init__; avgdl is kept as <<sum of lengths, number of them>>
EmptyIndex ==
    [documents |-> <<>>, doc_freqs |-> << >>, idf_cache |-> << >>, doc_lens |-> <<>>,
     avgdl |-> <<0, 1>>]

RECURSIVE SeqSum(_)
SeqSum(s) == IF s = <<>> THEN 0 ELSE Head(s) + SeqSum(Tail(s))

\* document frequencies after the chunks: one more for each chunk holding the token
count_doc_freqs(doc_freqs, chunks) ==
    LET holding(t) == Cardinality({k \in 1..Len(chunks) : t \in Range(tokenize(chunks[k]))})
        seen == DOMAIN doc_freqs \cup UNION {Range(tokenize(chunks[k])) : k \in 1..Len(chunks)}
    IN  [t \in seen |-> (IF t \in DOMAIN doc_freqs THEN doc_freqs[t] ELSE 0) + holding(t)]

\* a variant that computes the IDF of the new chunks' terms only
add_documents_idf_of_new_terms(index, chunks) ==
    LET documents == index.documents \o chunks
        doc_lens == index.doc_lens \o [k \in 1..Len(chunks) |-> Len(tokenize(chunks[k]))]
        doc_freqs == count_doc_freqs(index.doc_freqs, chunks)
        fresh == UNION {Range(tokenize(chunks[k])) : k \in 1..Len(chunks)}
    IN  [documents |-> documents,
         doc_freqs |-> doc_freqs,
         idf_cache |-> [t \in DOMAIN doc_freqs |->
                           IF t \in fresh THEN idf_of(Len(documents), doc_freqs[t])
                           ELSE index.idf_cache[t]],
         doc_lens |-> doc_lens,
         avgdl |-> IF doc_lens = <<>> THEN <<0, 1>> ELSE <<SeqSum(doc_lens), Len(doc_lens)>>]

\* add_documents
add_documents(index, chunks) ==
    LET documents == index.documents \o chunks
        doc_lens == index.doc_lens \o [k \in 1..Len(chunks) |-> Len(tokenize(chunks[k]))]
        doc_freqs == count_doc_freqs(index.doc_freqs, chunks)
    IN  [documents |-> documents,
         doc_freqs |-> doc_freqs,
         idf_cache |-> [t \in DOMAIN doc_freqs |-> idf_of(Len(documents), doc_freqs[t])],
         doc_lens |-> doc_lens,
         avgdl |-> IF doc_lens = <<>> THEN <<0, 1>> ELSE <<SeqSum(doc_lens), Len(doc_lens)>>]

\* the score search computes for document i:
\* idf * doc_tf * (k1 + 1) / (doc_tf + k1 * (1 - b + b * doc_len / avgdl))
\* with k1 = 1.2 and b = 0.75, numerator and denominator times 10 * avgdl[1]
bm25_score(index, query_tokens, i) ==
    LET doc_tokens == tokenize(index.documents[i])
        doc_len == index.doc_lens[i]
        total == index.avgdl[1]
        n == index.avgdl[2]
        term(token) ==
            LET doc_tf == token_count(doc_tokens, token)
                idf == IF token \in DOMAIN index.idf_cache THEN index.idf_cache[token] ELSE 0
            IN  (idf * 22 * doc_tf * total)
                    \div (10 * doc_tf * total + 3 * total + 9 * doc_len * n)
        scored == Range(query_tokens) \cap Range(doc_tokens)
        RECURSIVE sum(_)
        sum(ts) == IF ts = {} THEN 0
                   ELSE LET t == CHOOSE x \in ts : TRUE IN term(t) + sum(ts \ {t})
    IN  sum(scored)

\* search: the documents of positive score, best first, at most top_k
bm25_search(index, query_text, top_k) ==
    LET query_tokens == tokenize(query_text)
        scores == [i \in 1..Len(index.documents) |->
                      [doc |-> i, score |-> bm25_score(index, query_tokens, i)]]
        doc_scores == SelectSeq(scores, LAMBDA r : r.score > 0)
        order == SortByScoreDesc(IdentityList(Len(doc_scores)), doc_scores)
    IN  Prefix([k \in 1..Len(order) |-> doc_scores[order[k]]], top_k)

\* the chunks tried, and the batches made of them
ChunkTexts ==
    {<<"ml", "db">>, <<"ml", "db", "db">>, <<"db", "os">>, <<"os">>, <<"A", "ML">>}

ChunkBatches == UNION { [1..n -> ChunkTexts] : n \in 0..MaxBatch }

BM25Queries == {<<"ml">>, <<"db">>, <<"ml", "db">>, <<"A", "ML">>}

AddDocuments(chunks) ==
    /\ Len(bm25.documents) + Len(chunks) <= MaxDocs
    /\ bm25' = add_documents(bm25, chunks)
    /\ UNCHANGED <<bm_query, bm_out, gr_vars, discarded, cfg_vars, qr_vars, rr_vars, eng_vars, kg_vars, hs_vars>>

Search(query_text) ==
    /\ bm_query' = query_text
    /\ bm_out' = bm25_search(bm25, query_text, MaxDocs)
    /\ UNCHANGED <<bm25, gr_vars, discarded, cfg_vars, qr_vars, rr_vars, eng_vars, kg_vars, hs_vars>>

BM25Idle ==
    /\ bm25 = EmptyIndex
    /\ bm_query = <<>>
    /\ bm_out = <<>>

-----------------------------------------------------------------------------
(* KnowledgeGraph.get_related_entities (graph_retriever.py).  The entities    *)
(* 1..MaxNode have been added with add_entity; a relation is an edge of the   *)
(* MultiDiGraph, so two relations of the same subject and object are two      *)
(* parallel edges.                                                            *)

MaxNode == 3           \* entities of the graph
MaxRelations == 3      \* relations of the graph
MaxDepthTried == 2     \* max_depth is 0..MaxDepthTried

\* the nodes of self.graph: add_edge adds the end points it does not know
graph_nodes(rels) ==
    (1..MaxNode) \cup UNION {{rels[k].subject_id, rels[k].object_id} : k \in 1..Len(rels)}

\* self.graph.neighbors(current_id): the successors, in the order their first
\* edge was added
RECURSIVE neighbors(_, _)
neighbors(rels, current_id) ==
    IF rels = <<>> THEN <<>>
    ELSE LET before == neighbors(SubSeq(rels, 1, Len(rels) - 1), current_id)
             last == rels[Len(rels)]
         IN  IF last.subject_id = current_id /\ last.object_id \notin Range(before)
             THEN Append(before, last.object_id)
             ELSE before

\* what one round of `for neighbor ...: for edge_data ...` appends to the queue
\* (relation_types is None)
RECURSIVE expansions(_, _, _, _, _)
expansions(rels, nbrs, current_id, depth, path) ==
    IF nbrs = <<>> THEN <<>>
    ELSE LET edges == SelectSeq(rels, LAMBDA r : r.subject_id = current_id
                                                  /\ r.object_id = Head(nbrs))
         IN  [k \in 1..Len(edges) |->
                 [id |-> Head(nbrs), depth |-> depth + 1,
                  path |-> Append(path, edges[k].predicate)]]
             \o expansions(rels, Tail(nbrs), current_id, depth, path)

\* a variant of the test below that leaves out the visited set
skip_beyond_depth_only(depth, current_id) == depth > max_depth

\* `if depth > max_depth or current_id in visited: continue`
skip_entry(depth, current_id) == depth > max_depth \/ current_id \in visited

\* the call, up to the loop
GetRelatedEntities ==
    /\ gr_pc = "start"
    /\ IF entity_id \notin graph_nodes(relations)
       THEN gr_pc' = "done" /\ queue' = <<>>
       ELSE gr_pc' = "loop" /\ queue' = <<[id |-> entity_id, depth |-> 0, path |-> <<>>]>>
    /\ UNCHANGED <<relations, entity_id, max_depth, visited, related,
                   bm_vars, discarded, cfg_vars, qr_vars, rr_vars, eng_vars, kg_vars, hs_vars>>

\* one round of `while queue`
LoopRound ==
    /\ gr_pc = "loop" /\ queue # <<>>
    /\ LET current == Head(queue)
       IN  IF skip_entry(current.depth, current.id)
           THEN /\ queue' = Tail(queue)
                /\ UNCHANGED <<visited, related>>
           ELSE /\ visited' = visited \cup {current.id}
                /\ related' = IF current.depth > 0
                              THEN Append(related, current)
                              ELSE related
                /\ queue' = Tail(queue)
                            \o expansions(relations, neighbors(relations, current.id),
                                          current.id, current.depth, current.path)
    /\ UNCHANGED <<relations, entity_id, max_depth, gr_pc,
                   bm_vars, discarded, cfg_vars, qr_vars, rr_vars, eng_vars, kg_vars, hs_vars>>

\* the loop ends and related is returned
ReturnRelated ==
    /\ gr_pc = "loop" /\ queue = <<>>
    /\ gr_pc' = "done"
    /\ UNCHANGED <<relations, entity_id, max_depth, queue, visited, related,
                   bm_vars, discarded, cfg_vars, qr_vars, rr_vars, eng_vars, kg_vars, hs_vars>>

RelatedIdle ==
    /\ relations = <<>>
    /\ entity_id = 0
    /\ max_depth = 2
    /\ gr_pc = "idle"
    /\ queue = <<>>
    /\ visited = {}
    /\ related = <<>>

-----------------------------------------------------------------------------
(* AdvancedRAGSystem: initialize, update_configuration and what they leave   *)
(* registered with the engine (advanced_rag.py, core.py)                     *)

MaxRerankersMade == 4  \* HybridReranker objects constructed in one run

\* HybridRAGEngine.__init__; exists is FALSE while self.rag_engine is None
NoEngine ==
    [exists |-> FALSE, rerankers |-> <<>>, vector_weight |-> 6,
     query_length_threshold |-> 50]

NewEngine == [NoEngine EXCEPT !.exists = TRUE]

\* AdvancedRAGSystem.__init__
NewSystem(enable_advanced_reranking) ==
    [initialized |-> FALSE, enable_advanced_reranking |-> enable_advanced_reranking,
     rerankers |-> <<>>]

\* HybridRAGEngine.register_reranker
register_reranker(engine, reranker) ==
    [engine EXCEPT !.rerankers = Append(@, reranker)]

\* _initialize_rerankers on the given engine: with no engine yet, the
\* AttributeError of self.rag_engine.register_reranker is caught and logged
InitializeRerankers(engine) ==
    IF ~rag_system.enable_advanced_reranking
    THEN /\ rag_engine' = engine
         /\ UNCHANGED rerankers_made
         /\ rag_system' = [rag_system EXCEPT !.initialized = engine.exists]
    ELSE /\ rerankers_made < MaxRerankersMade
         /\ rerankers_made' = rerankers_made + 1
         /\ rag_system' = [rag_system EXCEPT !.rerankers = <<rerankers_made + 1>>,
                                             !.initialized = engine.exists]
         /\ rag_engine' = IF engine.exists
                          THEN register_reranker(engine, rerankers_made + 1)
                          ELSE engine

\* initialize: a new engine, then the rerankers
Initialize ==
    /\ ~rag_system.initialized
    /\ InitializeRerankers(NewEngine)
    /\ UNCHANGED <<rerank_calls, bm_vars, gr_vars, discarded, qr_vars,
                   rr_vars, eng_vars, kg_vars, hs_vars>>

\* update_configuration(config); the keys of config and their new values
UpdateConfiguration(config) ==
    /\ LET weighted == IF "retrieval_weights" \in DOMAIN config /\ rag_engine.exists
                       THEN [rag_engine EXCEPT !.vector_weight = config["retrieval_weights"]]
                       ELSE rag_engine
           adapted == IF "adaptive_config" \in DOMAIN config /\ rag_engine.exists
                      THEN [weighted EXCEPT
                               !.query_length_threshold = config["adaptive_config"]]
                      ELSE weighted
       IN  IF "reranker_weights" \in DOMAIN config
           THEN InitializeRerankers(adapted)
           ELSE /\ rag_engine' = adapted
                /\ UNCHANGED <<rag_system, rerankers_made>>
    /\ UNCHANGED <<rerank_calls, bm_vars, gr_vars, discarded, qr_vars,
                   rr_vars, eng_vars, kg_vars, hs_vars>>

\* search on an initialized system: _rerank_results calls every registered
\* reranker once
SystemSearch(enable_reranking) ==
    /\ rag_system.initialized
    /\ rerank_calls' = IF enable_reranking THEN Len(rag_engine.rerankers) ELSE 0
    /\ UNCHANGED <<rag_system, rag_engine, rerankers_made, bm_vars, gr_vars, discarded, qr_vars,
                   rr_vars, eng_vars, kg_vars, hs_vars>>

SystemIdle ==
    /\ rag_system = NewSystem(TRUE)
    /\ rag_engine = NoEngine
    /\ rerankers_made = 0
    /\ rerank_calls = 0

ExtIdle == BM25Idle /\ RelatedIdle /\ discarded = {} /\ SystemIdle /\ QueryIdle

-----------------------------------------------------------------------------
(* HybridRAGEngine (core.py) *)

MaxTopK == 2           \* query.top_k is 1 or MaxTopK
MaxHit == 2            \* retrievers return chunks 1..MaxHit
MaxResults == 2        \* results returned by all retrievers of one query, together

DefaultRerankTopK == 5

RetrieverNames == {"vector", "keyword", "graph"}

Modes == {"vector_only", "keyword_only", "graph_only",
          "hybrid_vector_keyword", "hybrid_all", "adaptive"}

\* adaptive_config
query_length_threshold == 50

technical_keywords ==
    {<<"a", "l", "g", "o", "r", "i", "t", "h", "m">>,
     <<"i", "m", "p", "l", "e", "m", "e", "n", "t", "a", "t", "i", "o", "n">>,
     <<"c", "o", "d", "e">>,
     <<"A", "P", "I">>}

\* the words of the `any(word in query_text ...)` test
relation_words ==
    {<<"r", "e", "l", "a", "t", "i", "o", "n", "s", "h", "i", "p">>,
     <<"c", "o", "n", "n", "e", "c", "t", "e", "d">>,
     <<"r", "e", "l", "a", "t", "e", "d">>,
     <<"b", "e", "t", "w", "e", "e", "n">>}

\* `kw in word`: kw occurs in word as a run of consecutive characters
is_substring(kw, word) ==
    \E i \in 1..(Len(word) - Len(kw) + 1) : SubSeq(word, i, i + Len(kw) - 1) = kw

\* `kw in query_text`: no keyword holds a blank, so a match lies inside a word
text_contains(kw, text) == \E k \in 1..Len(text) : is_substring(kw, text[k])

\* _select_retrieval_mode.  q.text holds the words of the query that matter,
\* as typed; q.plain_words counts its other words, which hold no keyword
select_retrieval_mode(q) ==
    IF q.retrieval_mode # "adaptive" THEN q.retrieval_mode
    ELSE LET query_text == [k \in 1..Len(q.text) |-> lower(q.text[k])]
             query_length == Len(q.text) + q.plain_words
             technical_score ==
                Cardinality({kw \in technical_keywords : text_contains(kw, query_text)})
         IN  IF query_length > query_length_threshold THEN "hybrid_all"
             ELSE IF technical_score > 0 THEN "hybrid_vector_keyword"
             ELSE IF \E word \in relation_words : text_contains(word, query_text)
                  THEN "hybrid_all"
             ELSE "hybrid_vector_keyword"

\* the three `if mode in [...]` blocks of _parallel_retrieve, in their order
dispatched_for(mode, registered) ==
    LET v == IF mode \in {"vector_only", "hybrid_vector_keyword", "hybrid_all"}
                /\ "vector" \in registered THEN <<"vector">> ELSE <<>>
        k == IF mode \in {"keyword_only", "hybrid_vector_keyword", "hybrid_all"}
                /\ "keyword" \in registered THEN <<"keyword">> ELSE <<>>
        g == IF mode \in {"graph_only", "hybrid_all"}
                /\ "graph" \in registered THEN <<"graph">> ELSE <<>>
    IN  v \o k \o g

\* the loop after asyncio.gather(..., return_exceptions=True): an exception
\* becomes an empty list for that retriever
\* a variant in which one failure empties every retriever's contribution
organize_result_all_or_nothing(name) ==
    IF \E r \in Range(active_retrievers) : task[r] = "raised"
    THEN <<>> ELSE task_result[name]

organize_result(name) ==
    IF task[name] = "raised" THEN <<>> ELSE task_result[name]

\* self.retrieval_weights, in tenths
retrieval_weight(name) ==
    IF name = "vector" THEN 6 ELSE IF name = "keyword" THEN 3 ELSE 1

\* result.score *= weight, for every result of every retriever, in dict order
RECURSIVE collect_all_results(_, _)
collect_all_results(names, rres) ==
    IF names = <<>> THEN <<>>
    ELSE LET name == Head(names)
             weighted == [i \in 1..Len(rres[name]) |->
                            [rres[name][i] EXCEPT
                                !.score = (@ * retrieval_weight(name)) \div 10]]
         IN  weighted \o collect_all_results(Tail(names), rres)

\* a variant that keeps the first entry of a chunk whatever the scores
unique_insert_keep_first(unique, result) ==
    IF \E i \in 1..Len(unique) : unique[i].chunk = result.chunk
    THEN unique ELSE Append(unique, result)

\* unique_results[chunk_id] = result when the id is new or the score higher
unique_insert(unique, result) ==
    IF \E i \in 1..Len(unique) : unique[i].chunk = result.chunk
    THEN LET i == CHOOSE i \in 1..Len(unique) : unique[i].chunk = result.chunk
         IN  IF result.score > unique[i].score
             THEN [unique EXCEPT ![i] = result] ELSE unique
    ELSE Append(unique, result)

RECURSIVE unique_results(_)
unique_results(all) ==
    IF all = <<>> THEN <<>>
    ELSE unique_insert(unique_results(SubSeq(all, 1, Len(all) - 1)), all[Len(all)])

SortedDesc(recs) ==
    LET order == SortByScoreDesc([i \in 1..Len(recs) |-> i], recs)
    IN  [i \in 1..Len(recs) |-> recs[order[i]]]

\* a variant that skips the deduplication
fuse_results_without_dedup(names, rres, top_k) ==
    Prefix(SortedDesc(collect_all_results(names, rres)), 3 * top_k)

\* _fuse_results: weight, deduplicate by chunk id, sort, keep 3 * top_k
fuse_results(names, rres, top_k) ==
    Prefix(SortedDesc(unique_results(collect_all_results(names, rres))), 3 * top_k)

\* chunk.metadata.get("doc_type", "unknown")
doc_type_of(c) == IF c % 2 = 0 THEN "pdf" ELSE "unknown"

\* chunk.metadata.get("created_date"); 0 stands for a chunk without one
created_date_of(c) == IF c % 2 = 0 THEN 0 ELSE c

\* a variant that refuses a result as soon as the filters hold a key other
\* than the three handled ones
apply_filters_strict(result, filters) ==
    IF DOMAIN filters = {} THEN TRUE
    ELSE IF DOMAIN filters \ {"doc_types", "date_range", "min_quality_score"} # {} THEN FALSE
    ELSE IF "doc_types" \in DOMAIN filters
            /\ doc_type_of(result.chunk) \notin filters["doc_types"]
         THEN FALSE
    ELSE IF "date_range" \in DOMAIN filters
            /\ created_date_of(result.chunk) # 0
            /\ ~(filters["date_range"][1] <= created_date_of(result.chunk)
                 /\ created_date_of(result.chunk) <= filters["date_range"][2])
         THEN FALSE
    ELSE IF "min_quality_score" \in DOMAIN filters
            /\ quality_score(result.chunk) < filters["min_quality_score"]
         THEN FALSE
    ELSE TRUE

\* _apply_filters: only the keys doc_types, date_range and min_quality_score
\* are looked at
apply_filters(result, filters) ==
    IF DOMAIN filters = {} THEN TRUE
    ELSE IF "doc_types" \in DOMAIN filters
            /\ doc_type_of(result.chunk) \notin filters["doc_types"]
         THEN FALSE
    ELSE IF "date_range" \in DOMAIN filters
            /\ created_date_of(result.chunk) # 0
            /\ ~(filters["date_range"][1] <= created_date_of(result.chunk)
                 /\ created_date_of(result.chunk) <= filters["date_range"][2])
         THEN FALSE
    ELSE IF "min_quality_score" \in DOMAIN filters
            /\ quality_score(result.chunk) < filters["min_quality_score"]
         THEN FALSE
    ELSE TRUE

RECURSIVE keep_filtered(_, _)
keep_filtered(results, filters) ==
    IF results = <<>> THEN <<>>
    ELSE (IF apply_filters(Head(results), filters) THEN <<Head(results)>> ELSE <<>>)
         \o keep_filtered(Tail(results), filters)

\* _post_process_results: rank = position in the list, then the filter
post_process_results(results, q) ==
    keep_filtered([i \in 1..Len(results) |-> [results[i] EXCEPT !.rank = i]], q.filters)

\* _generate_context: one block per result, here the chunk and the score shown
generate_context(results) ==
    [i \in 1..Len(results) |-> <<results[i].chunk, results[i].score>>]

NoFilters == << >>

\* the filters tried: none, a quality threshold, a key the engine does not
\* know, that key next to the threshold, and a type with a date range
FilterSets ==
    {NoFilters,
     [min_quality_score |-> SCALE],
     [language |-> "zh"],
     [language |-> "zh", min_quality_score |-> SCALE],
     [doc_types |-> {"pdf"}, date_range |-> <<2, 3>>]}

\* words a query is made of, as typed
QueryWords ==
    [code |-> <<"c", "o", "d", "e">>,
     Code |-> <<"C", "o", "d", "e">>,
     decode |-> <<"d", "e", "c", "o", "d", "e">>,
     API |-> <<"A", "P", "I">>,
     related |-> <<"r", "e", "l", "a", "t", "e", "d">>,
     between |-> <<"b", "e", "t", "w", "e", "e", "n">>]

\* a RAGQuery: text and plain_words stand for RAGQuery.query
QueryRecords(modes, texts, plain, top_ks, reranking, filter_sets) ==
    [retrieval_mode : modes, text : texts, plain_words : plain, top_k : top_ks,
     rerank_top_k : {DefaultRerankTopK}, enable_reranking : reranking,
     filters : filter_sets]

\* the queries tried: every pinned mode, and adaptive queries that take each
\* branch of _select_retrieval_mode; top_k is 1 or MaxTopK
Queries ==
    QueryRecords(Modes \ {"adaptive"}, {<<>>}, {5}, {1, MaxTopK}, BOOLEAN,
                 FilterSets)
    \cup QueryRecords({"adaptive"}, {<<>>, <<QueryWords.code>>, <<QueryWords.related>>}, {4}, {1, MaxTopK},
                      BOOLEAN, FilterSets)
    \cup QueryRecords({"adaptive"}, {<<>>}, {120}, {1, MaxTopK},
                      BOOLEAN, FilterSets)

RetrieverOutputs(n) ==
    UNION { [1..k -> [chunk : 1..MaxHit, score : {SCALE \div 2, SCALE}, rank : {0}]]
            : k \in 0..n }

ReturnedSoFar ==
    LET names == {r \in RetrieverNames : task[r] = "returned"}
        len(r) == Len(task_result[r])
    IN  (IF "vector" \in names THEN len("vector") ELSE 0)
        + (IF "keyword" \in names THEN len("keyword") ELSE 0)
        + (IF "graph" \in names THEN len("graph") ELSE 0)

not_eng_vars == <<rr_vars, kg_vars, hs_vars, ext_vars>>

\* retrieve up to the await of asyncio.gather: mode selection, _enhance_query
\* (which changes nothing), and one coroutine per applicable retriever
EngineDispatch ==
    /\ phase = "start"
    /\ selected_mode' = select_retrieval_mode(query)
    /\ active_retrievers' = dispatched_for(selected_mode', retrievers)
    /\ task' = [r \in RetrieverNames |->
                    IF r \in Range(active_retrievers') THEN "pending" ELSE "idle"]
    /\ phase' = "gathering"
    /\ UNCHANGED <<query, retrievers, task_result, retrieval_results,
                   fused_results, response, not_eng_vars>>

RetrieverReturns(r) ==
    /\ phase = "gathering" /\ task[r] = "pending"
    /\ \E res \in RetrieverOutputs(MaxResults - ReturnedSoFar) :
          task_result' = [task_result EXCEPT ![r] = res]
    /\ task' = [task EXCEPT ![r] = "returned"]
    /\ UNCHANGED <<query, selected_mode, retrievers, phase, active_retrievers, retrieval_results,
                   fused_results, response, not_eng_vars>>

RetrieverRaises(r) ==
    /\ phase = "gathering" /\ task[r] = "pending"
    /\ task' = [task EXCEPT ![r] = "raised"]
    /\ UNCHANGED <<query, selected_mode, retrievers, phase, active_retrievers, task_result,
                   retrieval_results, fused_results, response, not_eng_vars>>

\* the retriever's backend never answers: its coroutine stays suspended
RetrieverHangs(r) ==
    /\ phase = "gathering" /\ task[r] = "pending"
    /\ task' = [task EXCEPT ![r] = "hung"]
    /\ UNCHANGED <<query, selected_mode, retrievers, phase, active_retrievers, task_result,
                   retrieval_results, fused_results, response, not_eng_vars>>

\* gather returns once every coroutine has returned or raised; then the
\* results are organised and fused, and the reranking loop is entered when
\* query.enable_reranking and self.rerankers
EngineGather ==
    /\ phase = "gathering"
    /\ \A r \in Range(active_retrievers) : task[r] \in {"returned", "raised"}
    /\ retrieval_results' = [r \in Range(active_retrievers) |-> organize_result(r)]
    /\ fused_results' = fuse_results(active_retrievers, retrieval_results', query.top_k)
    /\ IF query.enable_reranking /\ rr_kind # "none"
       THEN LET input == Prefix(fused_results', query.rerank_top_k * 2)
            IN  /\ rr_heap' = input
                /\ rr_list' = IdentityList(Len(input))
                /\ rr_entry' = [list |-> IdentityList(Len(input)), heap |-> input]
                /\ rr_pc' = "start"
                /\ phase' = "reranking"
       ELSE /\ phase' = "fused"
            /\ UNCHANGED <<rr_heap, rr_list, rr_entry, rr_pc>>
    /\ UNCHANGED <<query, selected_mode, retrievers, active_retrievers, task, task_result, response,
                   rr_kind, rr_raised, hy_locals, sem_backend, ce_raw, fail_call,
                   max_same_source, kg_vars, hs_vars,
                   ext_vars>>

\* post-processing, context and the RAGResponse
EnginePostProcess ==
    /\ \/ phase = "fused"
       \/ phase = "reranking" /\ rr_pc = "done"
    /\ LET results == IF phase = "fused" THEN fused_results
                      ELSE [i \in 1..Len(rr_list) |-> rr_heap[rr_list[i]]]
           final_results == post_process_results(results, query)
       IN  response' = [status |-> "ok",
                        results |-> Prefix(final_results, query.top_k),
                        context |-> generate_context(final_results)]
    /\ phase' = "done"
    /\ UNCHANGED <<query, selected_mode, retrievers, active_retrievers, task, task_result,
                   retrieval_results, fused_results, not_eng_vars>>

EngineIdle ==
    /\ query = [retrieval_mode |-> "adaptive", text |-> <<>>, plain_words |-> 0,
                top_k |-> 1, rerank_top_k |-> DefaultRerankTopK,
                enable_reranking |-> FALSE, filters |-> NoFilters]
    /\ selected_mode = "none"
    /\ retrievers = {}
    /\ phase = "idle"
    /\ active_retrievers = <<>>
    /\ task = [r \in RetrieverNames |-> "idle"]
    /\ task_result = [r \in RetrieverNames |-> <<>>]
    /\ retrieval_results = << >>
    /\ fused_results = <<>>
    /\ response = [status |-> "none", results |-> <<>>, context |-> <<>>]

Init ==
    /\ query \in Queries
    /\ selected_mode = "none"
    /\ retrievers = RetrieverNames
    /\ phase = "start"
    /\ active_retrievers = <<>>
    /\ task = [r \in RetrieverNames |-> "idle"]
    /\ task_result = [r \in RetrieverNames |-> <<>>]
    /\ retrieval_results = << >>
    /\ fused_results = <<>>
    /\ response = [status |-> "none", results |-> <<>>, context |-> <<>>]
    /\ rr_kind = "hybrid"
    /\ sem_backend = "cross_encoder"
    /\ ce_raw = [c \in Chunks |-> c * SCALE - 2 * SCALE]
    /\ fail_call = 0
    /\ max_same_source = 1
    /\ rr_pc = "idle"
    /\ rr_raised = FALSE
    /\ rr_heap = <<>>
    /\ rr_list = <<>>
    /\ rr_entry = [list |-> <<>>, heap |-> <<>>]
    /\ HybridLocalsInit
    /\ GraphIdle
    /\ FusionIdle
    /\ ExtIdle

Next ==
    \/ EngineDispatch
    \/ \E r \in RetrieverNames : RetrieverReturns(r)
    \/ \E r \in RetrieverNames : RetrieverRaises(r)
    \/ \E r \in RetrieverNames : RetrieverHangs(r)
    \/ EngineGather
    \/ HybridEmpty
    \/ HybridSemantic
    \/ HybridMultiFactor
    \/ HybridDiversity
    \/ HybridBlend
    \/ EnginePostProcess

Spec == Init /\ [][Next]_vars

-----------------------------------------------------------------------------
(* SpecRerank: one reranking stage on every list of at most MaxInput results  *)
(* of distinct chunks, as the fused list is.                                  *)

InputScores == {(3 * SCALE) \div 10, (6 * SCALE) \div 10, (9 * SCALE) \div 10}

\* answers of the external scorer, per chunk: cross-encoder logits (any real)
\* and cosine similarities (in [-1, 1])
CrossEncoderAnswers ==
    { [c \in Chunks |-> 3 * SCALE - c * SCALE],
      [c \in Chunks |-> c * SCALE - 2 * SCALE],
      [c \in Chunks |-> 2 * SCALE],
      [c \in Chunks |-> 0 - 10 * SCALE] }

SimilarityAnswers ==
    { [c \in Chunks |-> (c * SCALE) \div MaxChunk],
      [c \in Chunks |-> 0 - SCALE] }

NoAnswers == [c \in Chunks |-> 0]

RerankerKinds == {"semantic", "multifactor", "diversity", "hybrid"}

InputLists ==
    UNION { { l \in [1..n -> [chunk : Chunks, score : InputScores, rank : {0}]] :
                \A i, j \in 1..n : i # j => l[i].chunk # l[j].chunk }
            : n \in 0..MaxInput }

ScorerInit ==
    /\ sem_backend \in {"cross_encoder", "similarity", "none"}
    /\ ce_raw \in (IF sem_backend = "cross_encoder" THEN CrossEncoderAnswers
                   ELSE IF sem_backend = "similarity" THEN SimilarityAnswers
                   ELSE {NoAnswers})
    /\ fail_call \in 0..2
    /\ sem_backend = "none" => fail_call = 0

InitRerank ==
    /\ rr_kind \in RerankerKinds
    /\ ScorerInit
    /\ rr_kind = "diversity" => (sem_backend = "none")
    /\ rr_kind \in {"semantic", "multifactor"} => fail_call < 2
    /\ max_same_source \in 1..MaxSameSourceBound
    /\ rr_kind # "diversity" => max_same_source = 1
    /\ \E l \in InputLists :
          /\ rr_heap = l
          /\ rr_list = IdentityList(Len(l))
          /\ rr_entry = [list |-> IdentityList(Len(l)), heap |-> l]
    /\ rr_pc = "start"
    /\ rr_raised = FALSE
    /\ HybridLocalsInit
    /\ EngineIdle
    /\ GraphIdle
    /\ FusionIdle
    /\ ExtIdle

SpecRerank == InitRerank /\ [][RerankNext]_vars

-----------------------------------------------------------------------------
(* SpecGraph: MaxProcs callers of one GraphRetriever, each a graph-mode query *)
(* or an add_documents call, in any interleaving.                             *)

RerankIdle ==
    /\ rr_kind = "none"
    /\ sem_backend = "none"
    /\ ce_raw = NoAnswers
    /\ fail_call = 0
    /\ max_same_source = 1
    /\ rr_pc = "idle"
    /\ rr_raised = FALSE
    /\ rr_heap = <<>>
    /\ rr_list = <<>>
    /\ rr_entry = [list |-> <<>>, heap |-> <<>>]
    /\ HybridLocalsInit

InitGraph ==
    /\ graph_built = FALSE
    /\ entities = <<>>
    /\ pc = [p \in Procs |-> "idle"]
    /\ kind = [p \in Procs |-> "none"]
    /\ b_chunks = [p \in Procs |-> <<>>]
    /\ b_idx = [p \in Procs |-> 0]
    /\ b_saw_built = [p \in Procs |-> FALSE]
    /\ overlapped = FALSE
    /\ RerankIdle
    /\ EngineIdle
    /\ FusionIdle
    /\ ExtIdle

NextGraph ==
    \/ \E p \in Procs : QueryArrives(p)
    \/ \E p \in Procs : AddDocumentsArrives(p)
    \/ \E p \in Procs : BuildStep(p)
    \/ \E p \in Procs : BuildCompleted(p)
    \/ \E p \in Procs : QuerySearches(p)

SpecGraph == InitGraph /\ [][NextGraph]_vars

-----------------------------------------------------------------------------
(* SpecClear: the callers of SpecGraph, and clear_data calls at any moment    *)

NextClear ==
    \/ \E p \in Procs : QueryArrives(p)
    \/ \E p \in Procs : AddDocumentsArrives(p)
    \/ \E p \in Procs : p \notin discarded /\ BuildStep(p)
    \/ \E p \in Procs : DiscardedBuildStep(p)
    \/ \E p \in Procs : BuildCompleted(p)
    \/ \E p \in Procs : QuerySearches(p)
    \/ ClearData

SpecClear == InitGraph /\ [][NextClear]_vars

-----------------------------------------------------------------------------
(* SpecFusion: one call of HybridRetriever.search, for every fusion method   *)
(* and every pair of result lists of up to 2 * top_k hits.                   *)

FusionMethods == {"weighted", "rrf", "max", "other"}

SemanticHitScores == {(3 * SCALE) \div 10, (9 * SCALE) \div 10}

Bm25HitScores == {SCALE \div 2, 2 * SCALE}

\* lists of hits of distinct chunks, best first, as both backends return them
HitLists(scores, n) ==
    UNION { { l \in [1..k -> [chunk : 1..(MaxFusionTopK + 1), score : scores]] :
                /\ \A i, j \in 1..k : i # j => l[i].chunk # l[j].chunk
                /\ \A i \in 1..(k - 1) : l[i].score >= l[i + 1].score }
            : k \in 0..n }

InitFusion ==
    /\ hs_pc = "start"
    /\ fusion_method \in FusionMethods
    /\ hs_top_k \in 1..MaxFusionTopK
    /\ semantic_hits \in HitLists(SemanticHitScores, 2 * hs_top_k)
    /\ bm25_hits \in HitLists(Bm25HitScores, 2 * hs_top_k)
    /\ hs_out = <<>>
    /\ hs_error = "none"
    /\ RerankIdle
    /\ EngineIdle
    /\ GraphIdle
    /\ ExtIdle

NextFusion ==
    \/ SearchFuses("weighted")
    \/ SearchFuses("rrf")
    \/ SearchFuses("max")
    \/ SearchFuses("other")

SpecFusion == InitFusion /\ [][NextFusion]_vars

-----------------------------------------------------------------------------
(* SpecFuse: _fuse_results and what follows it, on the lists of the vector   *)
(* and the keyword retriever, with enough hits for the cut at 3 * top_k.     *)

MaxFuseHits == 5       \* hits of the two retrievers together

\* the lists one retriever can return: up to n hits of distinct chunks
FuseOutputs(n) ==
    UNION { { l \in [1..k -> [chunk : Chunks, score : {SCALE \div 4, SCALE}, rank : {0}]] :
                \A i, j \in 1..k : i # j => l[i].chunk # l[j].chunk }
            : k \in 0..(IF n < MaxChunk THEN n ELSE MaxChunk) }

InitFuse ==
    /\ query \in { q \in Queries : /\ q.retrieval_mode = "hybrid_vector_keyword"
                                  /\ ~q.enable_reranking
                                  /\ q.filters = NoFilters }
    /\ selected_mode = select_retrieval_mode(query)
    /\ retrievers = RetrieverNames
    /\ phase = "gathering"
    /\ active_retrievers = dispatched_for(selected_mode, retrievers)
    /\ task = [r \in RetrieverNames |->
                    IF r \in Range(active_retrievers) THEN "returned" ELSE "idle"]
    /\ \E v \in FuseOutputs(MaxFuseHits) :
          \E k \in FuseOutputs(MaxFuseHits - Len(v)) :
             task_result = [r \in RetrieverNames |->
                               IF r = "vector" THEN v ELSE IF r = "keyword" THEN k ELSE <<>>]
    /\ retrieval_results = << >>
    /\ fused_results = <<>>
    /\ response = [status |-> "none", results |-> <<>>, context |-> <<>>]
    /\ RerankIdle
    /\ GraphIdle
    /\ FusionIdle
    /\ ExtIdle

NextFuse ==
    \/ EngineGather
    \/ EnginePostProcess

SpecFuse == InitFuse /\ [][NextFuse]_vars

-----------------------------------------------------------------------------
(* SpecCount: fusion, reranking and post-processing of the vector            *)
(* retriever's list when the fused list is longer than 2 * rerank_top_k      *)

MaxCountHits == 3      \* hits of the vector retriever

InitCount ==
    /\ query \in { [q EXCEPT !.rerank_top_k = 1, !.top_k = k] :
                      q \in { r \in Queries : /\ r.retrieval_mode = "vector_only"
                                               /\ r.filters \in {NoFilters,
                                                                 [min_quality_score |-> SCALE]} },
                      k \in {MaxTopK, MaxTopK + 1} }
    /\ selected_mode = select_retrieval_mode(query)
    /\ retrievers = RetrieverNames
    /\ phase = "gathering"
    /\ active_retrievers = dispatched_for(selected_mode, retrievers)
    /\ task = [r \in RetrieverNames |->
                    IF r \in Range(active_retrievers) THEN "returned" ELSE "idle"]
    /\ \E v \in FuseOutputs(MaxCountHits) :
          task_result = [r \in RetrieverNames |-> IF r = "vector" THEN v ELSE <<>>]
    /\ retrieval_results = << >>
    /\ fused_results = <<>>
    /\ response = [status |-> "none", results |-> <<>>, context |-> <<>>]
    /\ rr_kind = "hybrid"
    /\ sem_backend = "cross_encoder"
    /\ ce_raw = [c \in Chunks |-> c * SCALE - 2 * SCALE]
    /\ fail_call = 0
    /\ max_same_source = 1
    /\ rr_pc = "idle"
    /\ rr_raised = FALSE
    /\ rr_heap = <<>>
    /\ rr_list = <<>>
    /\ rr_entry = [list |-> <<>>, heap |-> <<>>]
    /\ HybridLocalsInit
    /\ GraphIdle
    /\ FusionIdle
    /\ ExtIdle

NextCount ==
    \/ EngineGather
    \/ HybridEmpty
    \/ HybridSemantic
    \/ HybridMultiFactor
    \/ HybridDiversity
    \/ HybridBlend
    \/ EnginePostProcess

SpecCount == InitCount /\ [][NextCount]_vars

-----------------------------------------------------------------------------
(* SpecSystem: initialize, update_configuration and search calls on one      *)
(* AdvancedRAGSystem, in any order                                            *)

Configurations ==
    {<< >>,
     [reranker_weights |-> "new"],
     [retrieval_weights |-> 5],
     [adaptive_config |-> 30],
     [retrieval_weights |-> 7, reranker_weights |-> "new"],
     [retrieval_weights |-> 6, adaptive_config |-> 50, reranker_weights |-> "new"]}

InitSystem ==
    /\ \E enable_advanced_reranking \in BOOLEAN :
          rag_system = NewSystem(enable_advanced_reranking)
    /\ rag_engine = NoEngine
    /\ rerankers_made = 0
    /\ rerank_calls = 0
    /\ BM25Idle
    /\ RelatedIdle
    /\ discarded = {}
    /\ QueryIdle
    /\ RerankIdle
    /\ EngineIdle
    /\ GraphIdle
    /\ FusionIdle

NextSystem ==
    \/ Initialize
    \/ \E config \in Configurations : UpdateConfiguration(config)
    \/ \E enable_reranking \in BOOLEAN : SystemSearch(enable_reranking)

SpecSystem == InitSystem /\ [][NextSystem]_vars

-----------------------------------------------------------------------------
(* SpecQuery: retrieve calls of one caller on one GraphRetriever; the first  *)
(* call builds the graph from its chunk_pool                                 *)

InitQuery ==
    /\ GraphIdle
    /\ QueryIdle
    /\ BM25Idle
    /\ RelatedIdle
    /\ discarded = {}
    /\ SystemIdle
    /\ RerankIdle
    /\ EngineIdle
    /\ FusionIdle

NextQuery ==
    \E q \in GraphQueries, chunk_pool \in BuildChunkLists, top_k \in 1..MaxTopK :
        GraphRetrieve(q, chunk_pool, top_k)

SpecQuery == InitQuery /\ [][NextQuery]_vars

-----------------------------------------------------------------------------
(* SpecMode: mode selection and dispatch, for queries of every shape         *)

MaxQueryWords == 2     \* words of a query that are spelled out

QueryTexts ==
    UNION { [1..n -> Range(QueryWords)]
            : n \in 0..MaxQueryWords }

\* the counts of further words make queries of up to 5, of 50, 51 and 120 words
ModeQueries ==
    QueryRecords(Modes, QueryTexts, {3, 48, 49, 118}, {1}, {FALSE}, {NoFilters})

InitMode ==
    /\ query \in ModeQueries
    /\ selected_mode = "none"
    /\ retrievers = RetrieverNames
    /\ phase = "start"
    /\ active_retrievers = <<>>
    /\ task = [r \in RetrieverNames |-> "idle"]
    /\ task_result = [r \in RetrieverNames |-> <<>>]
    /\ retrieval_results = << >>
    /\ fused_results = <<>>
    /\ response = [status |-> "none", results |-> <<>>, context |-> <<>>]
    /\ RerankIdle
    /\ GraphIdle
    /\ FusionIdle
    /\ ExtIdle

SpecMode == InitMode /\ [][EngineDispatch]_vars

-----------------------------------------------------------------------------
(* SpecBM25: an index filled by add_documents calls, and searches of it      *)

InitBM25 ==
    /\ BM25Idle
    /\ RelatedIdle
    /\ discarded = {}
    /\ SystemIdle
    /\ QueryIdle
    /\ RerankIdle
    /\ EngineIdle
    /\ GraphIdle
    /\ FusionIdle

NextBM25 ==
    \/ \E chunks \in ChunkBatches : AddDocuments(chunks)
    \/ \E query_text \in BM25Queries : Search(query_text)

SpecBM25 == InitBM25 /\ [][NextBM25]_vars

-----------------------------------------------------------------------------
(* SpecRelated: one get_related_entities call on every graph of at most       *)
(* MaxRelations relations, self loops, cycles and parallel edges included.    *)
(* The call is a coroutine-free loop, so it runs on until it returns.         *)

RelationLists ==
    UNION { [1..n -> [subject_id : 1..MaxNode, object_id : 1..MaxNode,
                      predicate : {"uses", "part_of"}]]
            : n \in 0..MaxRelations }

InitRelated ==
    /\ relations \in RelationLists
    /\ entity_id \in 0..MaxNode
    /\ max_depth \in 0..MaxDepthTried
    /\ gr_pc = "start"
    /\ queue = <<>>
    /\ visited = {}
    /\ related = <<>>
    /\ BM25Idle
    /\ discarded = {}
    /\ SystemIdle
    /\ QueryIdle
    /\ RerankIdle
    /\ EngineIdle
    /\ GraphIdle
    /\ FusionIdle

NextRelated ==
    \/ GetRelatedEntities
    \/ LoopRound
    \/ ReturnRelated

SpecRelated == InitRelated /\ [][NextRelated]_vars /\ WF_vars(NextRelated)

-----------------------------------------------------------------------------
(* Properties of the engine (Spec, FairSpec)                                 *)

\* asyncio runs every coroutine that is ready: a step that can be taken is
\* eventually taken
FairSpec == Spec /\ WF_vars(Next)

FailedRetrievers == {r \in Range(active_retrievers) : task[r] = "raised"}

ReturnedRetrievers == {r \in Range(active_retrievers) : task[r] = "returned"}

Gathered == phase \in {"fused", "reranking", "done"}

\* C1: when every dispatched retriever has failed, the query ends with
\* NoCandidatesError and never with a successful, empty response.
C1_AllFailedIsNoCandidatesError ==
    (/\ phase = "done"
     /\ active_retrievers # <<>>
     /\ FailedRetrievers = Range(active_retrievers))
    => response.status = "NoCandidatesError"

\* the score result i of retriever r carries into the fusion
weighted_score(r, i) == (task_result[r][i].score * retrieval_weight(r)) \div 10

\* result i of retriever r is in the fused list, under its own weighted score
\* or a higher one of the same chunk, unless the cut at 3 * top_k left only
\* results that score at least as high
TakesPartInFusion(r, i) ==
    \/ \E j \in 1..Len(fused_results) :
          /\ fused_results[j].chunk = task_result[r][i].chunk
          /\ fused_results[j].score >= weighted_score(r, i)
    \/ /\ Len(fused_results) = 3 * query.top_k
       /\ \A j \in 1..Len(fused_results) : fused_results[j].score >= weighted_score(r, i)

\* C2: when some dispatched retrievers fail and at least one does not, the
\* query succeeds: each failed retriever contributes the empty list, and every
\* result of every other retriever takes part in the fusion.
C2_PartialFailureStillAnswers ==
    (Gathered /\ FailedRetrievers # {} /\ ReturnedRetrievers # {})
    => /\ \A r \in FailedRetrievers : retrieval_results[r] = <<>>
       /\ \A r \in ReturnedRetrievers :
             /\ retrieval_results[r] = task_result[r]
             /\ \A i \in 1..Len(task_result[r]) : TakesPartInFusion(r, i)
       /\ phase = "done" => response.status = "ok"

\* the graph retriever failed, another retriever's result is in the response
C2_Witness ==
    /\ phase = "done"
    /\ task["graph"] = "raised"
    /\ \E r \in ReturnedRetrievers : task_result[r] # <<>>
    /\ response.status = "ok"
    /\ response.results # <<>>

DistinctChunks(recs) ==
    \A i, j \in 1..Len(recs) : i # j => recs[i].chunk # recs[j].chunk

\* C3: no two entries of the fused list, and no two results of the response,
\* have the same chunk id.
C3_NoDuplicateChunks ==
    /\ DistinctChunks(fused_results)
    /\ DistinctChunks(response.results)

\* two retrievers returned the same chunk, and the response holds it once
C3_Witness ==
    /\ phase = "done"
    /\ \E r1, r2 \in ReturnedRetrievers :
          /\ r1 # r2
          /\ \E i \in 1..Len(task_result[r1]), j \in 1..Len(task_result[r2]) :
                task_result[r1][i].chunk = task_result[r2][j].chunk
    /\ Len(response.results) = 1

\* C5: once a dispatched retriever never returns, the query still completes.
C5_HungRetrieverTimesOut ==
    (\E r \in RetrieverNames : task[r] = "hung") ~> (phase = "done")

\* C13: the ranks of the results in the response are 1..N in list order,
\* whatever the query's filters.
C13_ResponseRanksDense ==
    phase = "done"
    => \A i \in 1..Len(response.results) : response.results[i].rank = i

\* C14: the context holds one block per result of response.results, in the
\* same order, and no block of any other chunk.
C14_ContextIsOfReturnedResults ==
    phase = "done"
    => /\ Len(response.context) = Len(response.results)
       /\ \A i \in 1..Len(response.context) :
             response.context[i] = <<response.results[i].chunk, response.results[i].score>>

\* the keys _apply_filters handles
KnownFilterKeys == {"doc_types", "date_range", "min_quality_score"}

\* the list handed to post-processing, with the ranks post-processing sets
PostProcessInput ==
    LET results == IF query.enable_reranking /\ rr_kind # "none"
                   THEN [i \in 1..Len(rr_list) |-> rr_heap[rr_list[i]]]
                   ELSE fused_results
    IN  [i \in 1..Len(results) |-> [results[i] EXCEPT !.rank = i]]

\* C19: a query whose filters name an unknown field is refused with an
\* InvalidFilter error, and none of its filters is applied.
C19_UnknownFilterFieldRejected ==
    (phase = "done" /\ DOMAIN query.filters \ KnownFilterKeys # {})
    => response.status = "InvalidFilter"

\* C20: a search whose filters hold only keys the engine does not know
\* completes with a response, and no result is left out because of them.
C20_UnknownOnlyFiltersExcludeNothing ==
    (/\ phase = "done"
     /\ DOMAIN query.filters # {}
     /\ DOMAIN query.filters \cap KnownFilterKeys = {})
    => /\ response.status = "ok"
       /\ response.results = Prefix(PostProcessInput, query.top_k)

\* a search filtered by an unknown key only has answered with a chunk that a
\* quality threshold would have left out
C20_Witness ==
    /\ phase = "done"
    /\ query.filters = [language |-> "zh"]
    /\ response.status = "ok"
    /\ \E i \in 1..Len(response.results) :
          quality_score(response.results[i].chunk) < SCALE

\* the fused candidates that pass the query's filters
PassingFilters ==
    {i \in 1..Len(fused_results) : apply_filters(fused_results[i], query.filters)}

\* C28: with reranking enabled and no stage failing, retrieve returns
\* min(top_k, number of fused candidates that pass the filters) results, as it
\* does with reranking disabled.
C28_RerankingKeepsResultCount ==
    (phase = "done" /\ ~rr_raised)
    => Len(response.results) =
          (IF Cardinality(PassingFilters) < query.top_k
           THEN Cardinality(PassingFilters) ELSE query.top_k)

\* the chunks the retrievers that returned have handed in
ReturnedChunks ==
    UNION { {task_result[r][i].chunk : i \in 1..Len(task_result[r])}
            : r \in ReturnedRetrievers }

\* the highest weighted score among the entries of chunk c
IsBestOf(c, score) ==
    /\ \E r \in ReturnedRetrievers : \E i \in 1..Len(task_result[r]) :
          task_result[r][i].chunk = c /\ weighted_score(r, i) = score
    /\ \A r \in ReturnedRetrievers : \A i \in 1..Len(task_result[r]) :
          task_result[r][i].chunk = c => weighted_score(r, i) <= score

\* C16: the fused list holds each chunk once, under the highest score among
\* that chunk's entries; it is sorted by score, highest first; it has at most
\* 3 * top_k entries, and these are the best ones.
C16_FusedKeepsBestSortedCapped ==
    Gathered
    => /\ DistinctChunks(fused_results)
       /\ \A j \in 1..Len(fused_results) :
             IsBestOf(fused_results[j].chunk, fused_results[j].score)
       /\ \A j \in 1..(Len(fused_results) - 1) :
             fused_results[j].score >= fused_results[j + 1].score
       /\ Len(fused_results) <= 3 * query.top_k
       /\ Len(fused_results) =
             (IF Cardinality(ReturnedChunks) < 3 * query.top_k
              THEN Cardinality(ReturnedChunks) ELSE 3 * query.top_k)
       /\ \A c \in ReturnedChunks :
             (\A j \in 1..Len(fused_results) : fused_results[j].chunk # c)
             => \A r \in ReturnedRetrievers : \A i \in 1..Len(task_result[r]) :
                   task_result[r][i].chunk = c
                   => \A j \in 1..Len(fused_results) :
                         fused_results[j].score >= weighted_score(r, i)

\* both retrievers returned one chunk, the later entry with the higher
\* weighted score, and more than 3 * top_k distinct chunks came in, so the
\* list is cut
C16_Witness ==
    /\ Gathered
    /\ Len(fused_results) = 3 * query.top_k
    /\ Cardinality(ReturnedChunks) > 3 * query.top_k
    /\ \E i \in 1..Len(task_result["vector"]), j \in 1..Len(task_result["keyword"]) :
          /\ task_result["vector"][i].chunk = task_result["keyword"][j].chunk
          /\ weighted_score("vector", i) < weighted_score("keyword", j)

\* the query holds the word, whatever the case of its letters
Mentions(q, word) == \E k \in 1..Len(q.text) : is_substring(lower(word), lower(q.text[k]))

WordCount(q) == Len(q.text) + q.plain_words

\* the mode the selection rule names for a query
ModeByRule(q) ==
    IF q.retrieval_mode # "adaptive" THEN q.retrieval_mode
    ELSE IF WordCount(q) > query_length_threshold THEN "hybrid_all"
    ELSE IF \E kw \in technical_keywords : Mentions(q, kw) THEN "hybrid_vector_keyword"
    ELSE IF \E word \in relation_words : Mentions(q, word) THEN "hybrid_all"
    ELSE "hybrid_vector_keyword"

\* C18: an adaptive query of more than 50 words selects hybrid_all; otherwise
\* one with technical vocabulary selects hybrid_vector_keyword; otherwise one
\* with relational phrasing selects hybrid_all; otherwise
\* hybrid_vector_keyword.  A pinned mode is returned unchanged.
C18_ModeSelection ==
    selected_mode # "none" => selected_mode = ModeByRule(query)

-----------------------------------------------------------------------------
(* Properties of the reranking stage (SpecRerank)                            *)

SourcesOf(lst, heap) == {source_doc_id(heap[lst[i]].chunk) : i \in 1..Len(lst)}

\* C6: the output of DiversityReranker holds at most max_same_source results
\* of any one source document.
C6_AtMostMaxSameSourcePerSource ==
    (rr_kind = "diversity" /\ rr_pc = "done")
    => \A src \in SourcesOf(rr_list, rr_heap) :
          source_count(rr_list, rr_heap, src) <= max_same_source

\* the score a sub-reranker gave to object o
ScoreGivenTo(o, results, scores) ==
    scores[CHOOSE k \in 1..Len(results) : results[k] = o]

\* C8: after HybridReranker, every result's score is 0.4 s + 0.4 m + 0.2 d of
\* the scores the three sub-rerankers gave to that same chunk, and the list is
\* sorted by that score, highest first.
C8_BlendMatchedByChunk ==
    (rr_kind = "hybrid" /\ rr_pc = "done" /\ ~rr_raised /\ rr_list # <<>>)
    => /\ \A i \in 1..Len(rr_list) :
             rr_heap[rr_list[i]].score =
                (4 * ScoreGivenTo(rr_list[i], semantic_results, semantic_scores)
                 + 4 * ScoreGivenTo(rr_list[i], multifactor_results, multifactor_scores)
                 + 2 * ScoreGivenTo(rr_list[i], diversity_results, diversity_scores))
                \div 10
       /\ \A i \in 1..(Len(rr_list) - 1) :
             rr_heap[rr_list[i]].score >= rr_heap[rr_list[i + 1]].score

\* C9: when HybridReranker calls its multi-factor and its diversity
\* sub-reranker, the candidates carry the scores HybridReranker was given.
C9_SubRerankersSeeInputScores ==
    (rr_kind = "hybrid" /\ rr_pc \in {"hy_multifactor", "hy_diversity"})
    => \A o \in Range(rr_entry.list) : rr_heap[o].score = rr_entry.heap[o].score

\* the stage failed: its scorer raised, or it had no scoring model
StageFailed ==
    /\ rr_pc = "done"
    /\ \/ rr_raised
       \/ rr_kind = "semantic" /\ sem_backend = "none"

\* C10: a reranking stage that fails hands on the list it was given: the same
\* entries, in the same order, with the same scores.
C10_FailedStageHandsOnItsInput ==
    StageFailed
    => /\ rr_list = rr_entry.list
       /\ \A o \in Range(rr_entry.list) : rr_heap[o].score = rr_entry.heap[o].score

\* the stage ran a reranker to its return
StageReturned == rr_pc = "done" /\ ~StageFailed

\* the stage was handed a list in non-increasing score order, as the fusion
\* step produces it
EntrySorted ==
    \A i \in 1..(Len(rr_entry.list) - 1) :
        rr_entry.heap[rr_entry.list[i]].score >= rr_entry.heap[rr_entry.list[i + 1]].score

\* C11: the list a reranker returns is ordered by non-increasing score, and
\* results of equal score keep their input order (here for the inputs that
\* arrive sorted already).
C11_SortedByScoreStable ==
    (StageReturned /\ EntrySorted)
    => \A i \in 1..(Len(rr_list) - 1) :
          \/ rr_heap[rr_list[i]].score > rr_heap[rr_list[i + 1]].score
          \/ /\ rr_heap[rr_list[i]].score = rr_heap[rr_list[i + 1]].score
             /\ rr_list[i] < rr_list[i + 1]

\* C12: the results a reranker returns carry the ranks 1..N in output order.
C12_RanksReassigned ==
    StageReturned
    => \A i \in 1..Len(rr_list) : rr_heap[rr_list[i]].rank = i

\* the six feature vectors of the list the stage was given, the semantic one
\* holding for each result the score the inner SemanticReranker left on it
OwnFeatures ==
    LET f == extract_features(rr_entry.list, rr_entry.heap, 1)
    IN  [f EXCEPT !.semantic =
            mf_normalize_scores([i \in 1..Len(rr_entry.list) |->
                                    f.heap[rr_entry.list[i]].score])]

\* C22: MultiFactorReranker gives result i the score 0.3 * (its score at the
\* call) + 0.7 * (the weighted sum of its own six normalised features).
C22_MultiFactorBlendsOwnFeatures ==
    (rr_kind = "multifactor" /\ StageReturned)
    => \A i \in 1..Len(rr_entry.list) :
          rr_heap[rr_entry.list[i]].score =
             (3 * rr_entry.heap[rr_entry.list[i]].score
              + 7 * mf_combined_score(OwnFeatures, i)) \div 10

\* C23: with input scores in [0, 1], every score SemanticReranker writes,
\* 0.3 * original + 0.7 * semantic, is in [0, 1].
C23_SemanticScoresInUnitInterval ==
    (rr_kind = "semantic" /\ StageReturned)
    => \A o \in Range(rr_list) : 0 <= rr_heap[o].score /\ rr_heap[o].score <= SCALE

\* C27: a reranker returns the results it was given, each once; this for the
\* reranker the stage runs and for the diversity reranker that HybridReranker
\* runs on a copy of its list.
C27_OutputIsPermutationOfInput ==
    /\ StageReturned
       => /\ Len(rr_list) = Len(rr_entry.list)
          /\ Range(rr_list) = Range(rr_entry.list)
    /\ (rr_kind = "hybrid" /\ rr_pc = "hy_blend")
       => /\ Len(diversity_results) = Len(rr_list)
          /\ Range(diversity_results) = Range(rr_list)

-----------------------------------------------------------------------------
(* Properties of the graph construction (SpecGraph)                          *)

\* C4: at most one construction of the graph is in progress, and none starts
\* once graph_built is set.
C4_OneConstructionAtATime ==
    /\ Cardinality(Building) <= 1
    /\ \A p \in Building : ~b_saw_built[p]

\* both callers ran build_from_chunks on the same chunks, one after the other
BuiltTwice ==
    /\ \A p \in Procs : pc[p] \in {"search", "done"} /\ b_idx[p] > 0
    /\ \A p, q \in Procs : b_chunks[p] = b_chunks[q]
    /\ ~overlapped

\* C7: build_from_chunks run twice over the same chunks leaves the entity set
\* (id, name, frequency) of a single run.
C7_BuildTwiceIsBuildOnce ==
    BuiltTwice
    => EntitySet(entities) = EntitySet(build_from_chunks(<<>>, b_chunks[1]))

\* caller p's build_from_chunks has run to its end
CompletedBuild(p) == b_chunks[p] # <<>> /\ pc[p] \in {"search", "done"}

\* C26: whenever graph_built is true, a completed build_from_chunks has
\* populated the retriever's current knowledge_graph object.
C26_BuiltFlagMeansPopulatedGraph ==
    graph_built => \E p \in Procs : CompletedBuild(p) /\ p \notin discarded

-----------------------------------------------------------------------------
(* Properties of HybridRetriever.search (SpecFusion)                         *)

HitChunks(hits) == {hits[i].chunk : i \in 1..Len(hits)}

\* the position of chunk c in a list of hits that holds it once
PositionOf(hits, c) == CHOOSE i \in 1..Len(hits) : hits[i].chunk = c

\* the min-max normalised score of chunk c in one retriever's list, 0 when the
\* retriever did not return the chunk (a list of equal scores normalises to 1)
MinMaxOf(hits, c) ==
    IF c \notin HitChunks(hits) THEN 0
    ELSE LET lo == SeqMin(HitScores(hits))
             hi == SeqMax(HitScores(hits))
         IN  IF hi = lo THEN SCALE
             ELSE ((hits[PositionOf(hits, c)].score - lo) * SCALE) \div (hi - lo)

\* how many results a fusion of the two lists returns
FusedCount ==
    LET n == Cardinality(HitChunks(semantic_hits) \cup HitChunks(bm25_hits))
    IN  IF n < hs_top_k THEN n ELSE hs_top_k

\* C15: weighted fusion returns, for every chunk it keeps, the sum over the two
\* retrievers of weight * min-max normalised score, a retriever that did not
\* return the chunk counting 0; the combined score lies in [0, 1].
C15_WeightedFusionIsNormalisedSum ==
    (hs_pc = "done" /\ fusion_method = "weighted")
    => /\ hs_error = "none"
       /\ Len(hs_out) = FusedCount
       /\ \A i \in 1..Len(hs_out) :
             /\ hs_out[i].combined_score =
                   (semantic_weight * MinMaxOf(semantic_hits, hs_out[i].chunk)
                    + bm25_weight * MinMaxOf(bm25_hits, hs_out[i].chunk)) \div 10
             /\ hs_out[i].combined_score >= 0
             /\ hs_out[i].combined_score <= SCALE

\* 1 / (rrf_k + r + 1) for the 0-based rank r of chunk c in the list, 0 when
\* the list does not hold the chunk, in units of 1 / rrf_unit
ReciprocalRank(hits, c) ==
    IF c \notin HitChunks(hits) THEN 0
    ELSE rrf_unit \div (rrf_k + (PositionOf(hits, c) - 1) + 1)

\* C17: reciprocal rank fusion scores a chunk with the sum of 1/(rrf_k + r + 1)
\* over the lists that hold it: 1/61 for a chunk ranked 0th by one retriever
\* and absent from the other, 2/61 for a chunk ranked 0th by both.
C17_ReciprocalRankFusionScores ==
    (hs_pc = "done" /\ fusion_method = "rrf")
    => /\ hs_error = "none"
       /\ Len(hs_out) = FusedCount
       /\ \A i \in 1..Len(hs_out) :
             LET c == hs_out[i].chunk
                 first_in(hits) == hits # <<>> /\ hits[1].chunk = c
             IN  /\ hs_out[i].combined_score =
                       ReciprocalRank(semantic_hits, c) + ReciprocalRank(bm25_hits, c)
                 /\ (first_in(semantic_hits) /\ c \notin HitChunks(bm25_hits))
                       => 61 * hs_out[i].combined_score = rrf_unit
                 /\ (first_in(bm25_hits) /\ c \notin HitChunks(semantic_hits))
                       => 61 * hs_out[i].combined_score = rrf_unit
                 /\ (first_in(semantic_hits) /\ first_in(bm25_hits))
                       => 61 * hs_out[i].combined_score = 2 * rrf_unit

-----------------------------------------------------------------------------
(* Properties of BM25Retriever (SpecBM25) *)

\* bm_out is what a search of the index as it is now returned
SearchedThisIndex ==
    /\ bm_query # <<>>
    /\ bm_out = bm25_search(bm25, bm_query, MaxDocs)

\* the score document i was returned with, 0 when it was not returned
ReturnedScore(i) ==
    IF \E k \in 1..Len(bm_out) : bm_out[k].doc = i
    THEN (CHOOSE r \in Range(bm_out) : r.doc = i).score
    ELSE 0

\* document j is document i with one more occurrence of a term of the query
OneMoreOccurrence(i, j) ==
    \E p \in 1..Len(bm25.documents[j]) :
        /\ RemoveAt(bm25.documents[j], p) = bm25.documents[i]
        /\ Range(tokenize(<<bm25.documents[j][p]>>)) \cap Range(tokenize(bm_query)) # {}

\* C21: of two indexed documents that differ by one more occurrence of a query
\* term, the one with more occurrences scores at least as high as the other.
C21_MoreOccurrencesScoreNoLess ==
    SearchedThisIndex
    => \A i, j \in 1..Len(bm25.documents) :
          OneMoreOccurrence(i, j) => ReturnedScore(j) >= ReturnedScore(i)

\* C25: the index after any sequence of add_documents calls is the index one
\* add_documents call builds from all the documents, so a search of it returns
\* what a search of that index returns.
C25_IndexingIsAdditive ==
    /\ bm25 = add_documents(EmptyIndex, bm25.documents)
    /\ SearchedThisIndex
       => bm_out = bm25_search(add_documents(EmptyIndex, bm25.documents), bm_query, MaxDocs)

\* an index built by more than one call has been searched and has answered
\* with a term whose IDF the later call changed
C25_Witness ==
    /\ SearchedThisIndex
    /\ bm_out # <<>>
    /\ \E n \in 1..(Len(bm25.documents) - 1) :
          LET first == add_documents(EmptyIndex, SubSeq(bm25.documents, 1, n))
          IN  \E t \in DOMAIN first.idf_cache \cap Range(tokenize(bm_query)) :
                 first.idf_cache[t] # bm25.idf_cache[t]

-----------------------------------------------------------------------------
(* Properties of get_related_entities (SpecRelated) *)

\* the entities reached from entity_id along at most k relations
RECURSIVE ReachedWithin(_)
ReachedWithin(k) ==
    IF k = 0 THEN {entity_id}
    ELSE LET S == ReachedWithin(k - 1)
         IN  S \cup {relations[i].object_id :
                        i \in {j \in 1..Len(relations) : relations[j].subject_id \in S}}

\* the least number of relations from entity_id to n
HopCount(n) == CHOOSE k \in 0..MaxNode : n \in ReachedWithin(k)
                                          /\ \A j \in 0..(k - 1) : n \notin ReachedWithin(j)

\* related holds the entities other than entity_id within max_depth hops,
\* each once, with its hop count
RelatedIsReachable ==
    /\ {related[i].id : i \in 1..Len(related)}
          = (IF entity_id \in graph_nodes(relations)
             THEN ReachedWithin(max_depth) \ {entity_id} ELSE {})
    /\ \A i, j \in 1..Len(related) : related[i].id = related[j].id => i = j
    /\ \A i \in 1..Len(related) : related[i].depth = HopCount(related[i].id)

\* C24: get_related_entities returns, and what it returns is the entities
\* other than e reachable from e within max_depth hops, each once, with its
\* least hop count.
C24_RelatedEntitiesWithinDepth ==
    /\ <>(gr_pc = "done")
    /\ [](gr_pc = "done" => RelatedIsReachable)

\* a call has returned related entities from a graph with two parallel edges
\* and a cycle through e
C24_Witness ==
    /\ gr_pc = "done"
    /\ \E i, j \in 1..Len(relations) :
          /\ i # j
          /\ relations[i].subject_id = relations[j].subject_id
          /\ relations[i].object_id = relations[j].object_id
    /\ \E i \in 1..Len(relations) :
          relations[i].object_id = entity_id /\ relations[i].subject_id # entity_id
          /\ relations[i].subject_id \in ReachedWithin(MaxNode)
    /\ related # <<>>

-----------------------------------------------------------------------------
(* Properties of the system configuration (SpecSystem) *)

\* C29: on an initialized system with advanced reranking enabled, the engine
\* has exactly one registered reranker, and a search passes its results
\* through a reranker at most once.
C29_OneRegisteredReranker ==
    (rag_system.initialized /\ rag_system.enable_advanced_reranking)
    => /\ Len(rag_engine.rerankers) = 1
       /\ rerank_calls <= 1

-----------------------------------------------------------------------------
(* Properties of GraphRetriever.retrieve (SpecQuery) *)

\* the query's extraction yields an entity with the name of a graph entity
\* of which the chunk holds a mention
MentionsNamedEntity(c) ==
    \E k \in 1..Len(g_query.ner), i \in 1..Len(entities) :
        /\ entities[i].name = g_query.ner[k].name
        /\ \E m \in 1..Len(entities[i].mentions) : mentioned_in(c, entities[i].mentions[m])

\* C30: a chunk of the pool that mentions a graph entity whose name the
\* query's entity extraction yields is among the results of retrieve.
C30_NamedEntityChunkReturned ==
    \A i \in 1..Len(g_pool) :
        (MentionsNamedEntity(g_pool[i]) /\ Len(g_pool) <= 2 * g_top_k)
        => \E r \in 1..Len(g_results) : g_results[r].chunk = g_pool[i]

====
